---- MODULE Spec2Model ----
(***************************************************************************)
(* A model of the calicoctl reconcilers of the Calico charm               *)
(* (src/src/charm.py, with reactive/calico.py as the older generation).   *)
(*                                                                         *)
(* One calicoctl call is one step: a call may succeed or raise            *)
(* CalledProcessError / TimeoutExpired, and the reconciler re-raises.     *)
(* The datastore is the set of resources calicoctl reads and writes.      *)
(***************************************************************************)
EXTENDS Integers, Sequences, FiniteSets, TLC

VARIABLES
    config,                \* self.config: charm configuration, keyed as in config.yaml
    unit,                  \* identity of the unit: name, bind_address, hostname
    ds_pools,              \* datastore: the IPPool resources
    ds_bgppeers,           \* datastore: the BGPPeer resources
    pc,                    \* position of the running reconciler
    err,                   \* exception the reconciler raised ("none" if none)
    calls,                 \* calicoctl calls issued since the pass started
    pools,                 \* _configure_calico_pool: pools (the fetched items)
    pool_names_to_delete,  \* _configure_calico_pool: names still to delete
    pool_applies,          \* _configure_calico_pool: zip(cidrs, names) still to apply
    ds_pools0,             \* the IPPool resources when the pass started
    as_number,             \* _configure_node: as_number = self._get_unit_as_number()
    named_peers,           \* _configure_bgp_peers: named_peers, in insertion order
    peer_applies,          \* _configure_bgp_peers: entries of named_peers still to apply
    existing_peers,        \* _configure_bgp_peers: existing_peers (the fetched names)
    peers_to_delete,       \* _configure_bgp_peers: names still to delete
    ds_bgpconfig,          \* datastore: the default BGPConfiguration (at most one)
    ds_node,               \* datastore: the Node of this host (at most one)
    get_result,            \* how the get of the running reconciler ended
    bgp_config,            \* _configure_bgp_globals: bgp_config
    node,                  \* _configure_node: node
    route_reflector_cluster_id,  \* _configure_node: route_reflector_cluster_id
    stored,                \* self.stored: binaries_installed, deployed, calico_configured
    status,                \* self.unit.status
    event,                 \* the event of the running (or last) handler
    deferred,              \* event.defer() was called by that handler
    ran,                   \* steps the handler has run, in order
    env,                   \* the host and the relations: kubeconfig, etcd, rp_filter
    last_pass,             \* how the most recent _configure_calico ended
    prev_pass,             \* the pass before this one, if it ended without error
    procs,                 \* several units on one datastore: the pass of each unit
    flags,                 \* reactive generation: the flags that are set
    changed                \* reactive generation: options changed at this hook

vars == <<config, unit, ds_pools, ds_bgppeers, pc, err, calls, pools,
          pool_names_to_delete, pool_applies, ds_pools0, as_number,
          named_peers, peer_applies, existing_peers, peers_to_delete,
          ds_bgpconfig, ds_node, get_result, bgp_config, node,
          route_reflector_cluster_id, stored, status, event, deferred, ran, env,
          last_pass, prev_pass, procs, flags, changed>>

globalsVars == <<ds_bgpconfig, bgp_config>>

nodeVars == <<ds_node, node, route_reflector_cluster_id>>

charmVars == <<stored, status, event, deferred, ran, env, last_pass>>

\* the flags of the reactive generation
reactiveVars == <<flags, changed>>

\* the record of the previous pass, the passes of the other units and the flags
otherVars == <<prev_pass, procs, reactiveVars>>

\* what the reconcilers of pools, AS numbers and peers never touch
laterVars == <<globalsVars, nodeVars, charmVars, get_result, otherVars>>

peerLocals == <<named_peers, peer_applies, existing_peers, peers_to_delete>>

poolLocals == <<pools, pool_names_to_delete, pool_applies>>

(***************************************************************************)
(* Bounds of the model.                                                    *)
(***************************************************************************)
MaxCidrs == 2        \* comma-separated items in the cidr option

(***************************************************************************)
(* Helpers on sequences.                                                   *)
(***************************************************************************)
Range(s) == {s[i] : i \in 1..Len(s)}

SeqsUpTo(S, n) == UNION {[1..k -> S] : k \in 0..n}

\* every listing of a finite set as a sequence without repetition
Listings(S) == {s \in [1..Cardinality(S) -> S] : Range(s) = S}

\* Python's None
None == -1

\* self.stored.set_default(...), lines 47-55
StoredDefault ==
    [binaries_installed |-> FALSE, deployed |-> FALSE, calico_configured |-> FALSE]

\* a status of the unit
Status(name, message) == [name |-> name, message |-> message]

\* how a calicoctl call ended: "ok" or the exception raised, with its stderr
\* (stderr_none: e.stderr is None, nothing was read from the pipe)
Result(type, stderr, stderr_none) ==
    [type |-> type, stderr |-> stderr, stderr_none |-> stderr_none]

NoResult == Result("none", <<>>, TRUE)

\* a resource as calicoctl prints it: kind, metadata.name, spec
Resource(kind, name, spec) == [kind |-> kind, name |-> name, spec |-> spec]

\* no resource held yet
NoResource == Resource("none", "", <<>>)

\* None, among texts
NullText == "None"

\* no earlier pass to compare with
NoPass == [ended |-> "none", applies |-> <<>>, datastore |-> <<{}, {}, {}, {}>>]

\* the variables of the other reconcilers and of the handlers, at rest
LaterInit ==
    /\ prev_pass = NoPass
    /\ flags = {}
    /\ changed = {}
    /\ procs = <<>>
    /\ ds_bgpconfig = {}
    /\ ds_node = {}
    /\ get_result = NoResult
    /\ bgp_config = NoResource
    /\ node = NoResource
    /\ route_reflector_cluster_id = NullText
    /\ stored = StoredDefault
    /\ status = Status("maintenance", "")
    /\ event = "none"
    /\ deferred = FALSE
    /\ ran = <<>>
    /\ env = [kubeconfig |-> TRUE, etcd_ready |-> TRUE, rp_filter |-> 0]
    /\ last_pass = "none"

(***************************************************************************)
(* Exceptions calicoctl raises (charm.py: calicoctl, lines 604-609).       *)
(***************************************************************************)
CalicoctlErrors == {"CalledProcessError", "TimeoutExpired"}

(***************************************************************************)
(* IP pools: _configure_calico_pool.                                       *)
(***************************************************************************)
\* The items of the cidr option as the operator may write them.
CidrItems == {"10.0.0.0/16", " 10.1.0.0/16", "fd00::/64"}

\* str.strip() on an item of the cidr option
Strip(item) == IF item = " 10.1.0.0/16" THEN "10.1.0.0/16" ELSE item

\* ipaddress.ip_interface(cidr).network.version
NetworkVersion(cidr) == IF cidr \in {"fd00::/64"} THEN 6 ELSE 4

\* f"ipv{version}"
PoolName(version) == IF version = 4 THEN "ipv4" ELSE "ipv6"

\* cidrs = tuple(cidr.strip() for cidr in self.config["cidr"].split(","))
\* config["cidr"] holds the comma-separated items.
Cidrs(cfg) == [i \in 1..Len(cfg["cidr"]) |-> Strip(cfg["cidr"][i])]

\* names = tuple(f"ipv{self._get_network(cidr).version}" for cidr in cidrs)
Names(cfg) ==
    [i \in 1..Len(cfg["cidr"]) |-> PoolName(NetworkVersion(Cidrs(cfg)[i]))]

ManagePools_always(cfg) == TRUE

\* if not self.config["manage-pools"]: return
ManagePools(cfg) == cfg["manage-pools"]

IsStalePool_and(pool, names, cidrs) ==
    pool.name \notin Range(names) /\ pool.cidr \notin Range(cidrs)

\* pool["metadata"]["name"] not in names or pool["spec"]["cidr"] not in cidrs
IsStalePool(pool, names, cidrs) ==
    pool.name \notin Range(names) \/ pool.cidr \notin Range(cidrs)

\* pool_names_to_delete = [pool name for pool in pools if stale]
PoolNamesToDelete(items, cfg) ==
    LET stale == SelectSeq(items, LAMBDA p : IsStalePool(p, Names(cfg), Cidrs(cfg)))
    IN  [i \in 1..Len(stale) |-> stale[i].name]

\* the IPPool resource built for one (cidr, name) pair
PoolResource(cidr, name, cfg) ==
    [name |-> name, cidr |-> cidr, ipipMode |-> cfg["ipip"],
     vxlanMode |-> cfg["vxlan"], natOutgoing |-> cfg["nat-outgoing"]]

\* zip(cidrs, names)
PoolPairs(cfg) ==
    [i \in 1..Len(cfg["cidr"]) |-> [cidr |-> Cidrs(cfg)[i], name |-> Names(cfg)[i]]]

\* calicoctl apply: create the resource, or replace the one of the same name
Upsert(resources, r) == {x \in resources : x.name # r.name} \cup {r}

\* calicoctl delete <kind> <name> [--skip-not-exists]
Remove(resources, name) == {x \in resources : x.name # name}

GetCall(kind) == [verb |-> "get", kind |-> kind]
DeleteCall(kind, name, skip) ==
    [verb |-> "delete", kind |-> kind, name |-> name, skip |-> skip]

DeletesDone_early == TRUE

\* the apply loop starts when the delete loop has ended
DeletesDone == pool_names_to_delete = <<>>

\* Pools that can be in the datastore before the charm looks at it.
PoolNames == {"ipv4", "ipv6", "rogue"}
PoolCidrs == {"10.0.0.0/16", "10.1.0.0/16", "fd00::/64"}
ExistingPool(name, cidr) ==
    [name |-> name, cidr |-> cidr, ipipMode |-> "Always",
     vxlanMode |-> "Never", natOutgoing |-> TRUE]
PoolSets ==
    {{ExistingPool(n, f[n]) : n \in DOMAIN f} :
        f \in UNION {[S -> PoolCidrs] : S \in SUBSET PoolNames}}

\* (ipip, vxlan, nat-outgoing) as the operator may set them
PoolOptions ==
    {[ipip |-> "Always", vxlan |-> "Never", nat |-> TRUE],
     [ipip |-> "Never", vxlan |-> "Always", nat |-> FALSE],
     [ipip |-> "CrossSubnet", vxlan |-> "Never", nat |-> FALSE]}

\* values of the cidr option
CidrLists == SeqsUpTo(CidrItems, MaxCidrs) \ {<<>>}

PoolConfigs ==
    {[k \in {"cidr", "manage-pools", "ipip", "vxlan", "nat-outgoing"} |->
        CASE k = "cidr" -> c
          [] k = "manage-pools" -> m
          [] k = "ipip" -> o.ipip
          [] k = "vxlan" -> o.vxlan
          [] k = "nat-outgoing" -> o.nat] :
      c \in CidrLists, m \in BOOLEAN,
      o \in PoolOptions}

NoUnit == [name |-> <<>>, bind_address |-> "", hostname |-> ""]

PoolInit ==
    /\ config \in PoolConfigs
    /\ unit = NoUnit
    /\ ds_pools \in PoolSets
    /\ ds_bgppeers = {}
    /\ pc = "idle"
    /\ err = "none"
    /\ calls = <<>>
    /\ pools = <<>>
    /\ pool_names_to_delete = <<>>
    /\ pool_applies = <<>>
    /\ ds_pools0 = ds_pools
    /\ as_number = None
    /\ named_peers = <<>>
    /\ peer_applies = <<>>
    /\ existing_peers = {}
    /\ peers_to_delete = {}
    /\ LaterInit

\* _configure_calico_pool, lines 416-418: manage-pools is false
PoolSkip ==
    /\ pc = "idle"
    /\ ~ManagePools(config)
    /\ pc' = "done"
    /\ UNCHANGED <<config, unit, ds_pools, ds_bgppeers, err, calls, poolLocals,
                   ds_pools0, as_number, peerLocals>>
    /\ UNCHANGED laterVars

\* line 423: pools = self._calicoctl_get("pool")["items"], then lines 425-431
PoolGet ==
    /\ pc = "idle"
    /\ ManagePools(config)
    /\ calls' = Append(calls, GetCall("pool"))
    /\ \/ \E items \in Listings(ds_pools) :
            /\ pools' = items
            /\ pool_names_to_delete' = PoolNamesToDelete(items, config)
            /\ pool_applies' = PoolPairs(config)
            /\ pc' = "run"
            /\ err' = "none"
       \/ \E e \in CalicoctlErrors :
            /\ pc' = "failed"
            /\ err' = e
            /\ UNCHANGED poolLocals
    /\ UNCHANGED <<config, unit, ds_pools, ds_bgppeers, ds_pools0, as_number,
                   peerLocals>>
    /\ UNCHANGED laterVars

\* lines 433-435: self.calicoctl("delete", "pool", pool_name, "--skip-not-exists")
PoolDelete ==
    /\ pc = "run"
    /\ pool_names_to_delete # <<>>
    /\ calls' = Append(calls, DeleteCall("pool", Head(pool_names_to_delete), TRUE))
    /\ \/ /\ ds_pools' = Remove(ds_pools, Head(pool_names_to_delete))
          /\ pool_names_to_delete' = Tail(pool_names_to_delete)
          /\ UNCHANGED <<pc, err>>
       \/ \E e \in CalicoctlErrors :
            /\ pc' = "failed"
            /\ err' = e
            /\ UNCHANGED <<ds_pools, pool_names_to_delete>>
    /\ UNCHANGED <<config, unit, ds_bgppeers, pools, pool_applies, ds_pools0,
                   as_number, peerLocals>>
    /\ UNCHANGED laterVars

\* lines 437-450: self._calicoctl_apply(pool) for each (cidr, name)
PoolApply ==
    /\ pc = "run"
    /\ DeletesDone
    /\ pool_applies # <<>>
    /\ LET pair == Head(pool_applies)
           pool == PoolResource(pair.cidr, pair.name, config)
       IN  /\ calls' = Append(calls, [verb |-> "apply", kind |-> "pool",
                                      name |-> pool.name, skip |-> FALSE,
                                      body |-> pool])
           /\ \/ /\ ds_pools' = Upsert(ds_pools, pool)
                 /\ pool_applies' = Tail(pool_applies)
                 /\ pc' = IF Len(pool_applies) = 1 THEN "done" ELSE "run"
                 /\ UNCHANGED err
              \/ \E e \in CalicoctlErrors :
                   /\ pc' = "failed"
                   /\ err' = e
                   /\ UNCHANGED <<ds_pools, pool_applies>>
    /\ UNCHANGED <<config, unit, ds_bgppeers, pools, pool_names_to_delete,
                   ds_pools0, as_number, peerLocals>>
    /\ UNCHANGED laterVars

\* The hook ends, with or without an exception: the locals of the reconciler
\* are gone.
PoolExit ==
    /\ pc \in {"done", "failed"}
    /\ pc' = "exited"
    /\ err' = "none"
    /\ calls' = <<>>
    /\ pools' = <<>>
    /\ pool_names_to_delete' = <<>>
    /\ pool_applies' = <<>>
    /\ ds_pools0' = ds_pools
    /\ UNCHANGED <<config, unit, ds_pools, ds_bgppeers, as_number, peerLocals>>
    /\ UNCHANGED laterVars

\* The next hook runs the reconciler again: a deferred event with the same
\* configuration, or config-changed after the operator set the cidr option,
\* manage-pools or the encapsulation options.
PoolRerun ==
    /\ pc = "exited"
    /\ \/ UNCHANGED config
       \/ \E c \in CidrLists : config' = [config EXCEPT !["cidr"] = c]
       \/ \E m \in BOOLEAN : config' = [config EXCEPT !["manage-pools"] = m]
       \/ \E o \in PoolOptions :
            config' = [config EXCEPT !["ipip"] = o.ipip, !["vxlan"] = o.vxlan,
                                     !["nat-outgoing"] = o.nat]
    /\ pc' = "idle"
    /\ UNCHANGED <<unit, ds_pools, ds_bgppeers, err, calls, poolLocals, ds_pools0,
                   as_number, peerLocals>>
    /\ UNCHANGED laterVars

PoolNext ==
    PoolSkip \/ PoolGet \/ PoolDelete \/ PoolApply \/ PoolExit \/ PoolRerun

PoolSpec == PoolInit /\ [][PoolNext]_vars

(***************************************************************************)
(* Claims about the pool reconciler, checked under PoolSpec.               *)
(***************************************************************************)
DesiredCidrs == {Strip(config["cidr"][i]) : i \in 1..Len(config["cidr"])}
DesiredNames == {PoolName(NetworkVersion(c)) : c \in DesiredCidrs}
DeletedNames == {calls[i].name : i \in {j \in 1..Len(calls) : calls[j].verb = "delete"}}
ApplyCalls == SelectSeq(calls, LAMBDA c : c.verb = "apply")
PoolPassRunning == config["manage-pools"] /\ pc \in {"run", "done"}
PoolPassDone == config["manage-pools"] /\ pc = "done"

\* C1: with manage-pools true the pass deletes exactly the fetched pools whose
\* name is not a desired name ipv{family} or whose cidr is not a configured
\* cidr, each once, and applies one pool per configured (cidr, ipv{family})
\* pair, in order, with ipipMode, vxlanMode and natOutgoing from the options.
C1_DeletesStaleAppliesDesired ==
    LET stale == {p.name : p \in {q \in Range(pools) :
                      q.name \notin DesiredNames \/ q.cidr \notin DesiredCidrs}}
    IN  /\ PoolPassRunning =>
              /\ DeletedNames \cup Range(pool_names_to_delete) = stale
              /\ DeletedNames \cap Range(pool_names_to_delete) = {}
              /\ Cardinality(DeletedNames) =
                     Cardinality({j \in 1..Len(calls) : calls[j].verb = "delete"})
        /\ PoolPassDone =>
              /\ DeletedNames = stale
              /\ Len(ApplyCalls) = Len(config["cidr"])
              /\ \A i \in 1..Len(ApplyCalls) :
                     ApplyCalls[i].body =
                         [name |-> PoolName(NetworkVersion(Strip(config["cidr"][i]))),
                          cidr |-> Strip(config["cidr"][i]),
                          ipipMode |-> config["ipip"],
                          vxlanMode |-> config["vxlan"],
                          natOutgoing |-> config["nat-outgoing"]]

C1_Witness ==
    /\ PoolPassDone
    /\ Cardinality(DeletedNames) = 2
    /\ Len(ApplyCalls) = 2
    /\ \E p \in Range(pools) : p.name = "ipv4" /\ p.name \notin DeletedNames

\* the cidr the pass leaves under a desired name: that of the last pair so named
LastCidrFor(name) ==
    LET idx == {i \in 1..Len(config["cidr"]) :
                   PoolName(NetworkVersion(Strip(config["cidr"][i]))) = name}
    IN  Strip(config["cidr"][CHOOSE i \in idx : \A j \in idx : j <= i])

\* C2: in one pass every delete precedes every apply; when the cidr of a
\* family changed, the old pool of that name is deleted before the pool of
\* the same name is applied, and the new one is there when the pass succeeds.
C2_DeleteBeforeApply ==
    /\ \A i, j \in 1..Len(calls) :
           (calls[i].verb = "apply" /\ calls[j].verb = "delete") => j < i
    /\ PoolPassDone =>
           \A n \in DesiredNames :
               /\ \E p \in ds_pools : p.name = n /\ p.cidr = LastCidrFor(n)
               /\ (\E q \in Range(pools) : q.name = n /\ q.cidr \notin DesiredCidrs)
                      => \E i, j \in 1..Len(calls) :
                             /\ i < j
                             /\ calls[i].verb = "delete" /\ calls[i].name = n
                             /\ calls[j].verb = "apply" /\ calls[j].name = n

C2_Witness ==
    /\ PoolPassDone
    /\ \E q \in Range(pools) : q.name = "ipv4" /\ q.cidr = "10.0.0.0/16"
    /\ DesiredCidrs = {"10.1.0.0/16"}
    /\ \E p \in ds_pools : p.name = "ipv4" /\ p.cidr = "10.1.0.0/16"

\* cidrs configured for the family a pool name denotes
FamilyCidrs(name) ==
    {c \in DesiredCidrs : PoolName(NetworkVersion(c)) = name}

\* C3: a pass deletes every fetched pool whose cidr is not the cidr configured
\* for the family its own name denotes, and after a successful pass the
\* datastore holds exactly one pool per configured family, with that family's
\* cidr, and no other pool.
C3_StalePerFamily ==
    PoolPassDone =>
        /\ \A p \in Range(pools) :
               p.cidr \notin FamilyCidrs(p.name) => p.name \in DeletedNames
        /\ {p.name : p \in ds_pools} = DesiredNames
        /\ \A p \in ds_pools : p.cidr \in FamilyCidrs(p.name)

\* C4: with manage-pools false the pass issues no calicoctl call and leaves
\* the pools as they were.
C4_UnmanagedUntouched ==
    ~config["manage-pools"] => calls = <<>> /\ ds_pools = ds_pools0

C4_Witness ==
    /\ ~config["manage-pools"]
    /\ pc = "done"
    /\ \E p \in ds_pools : p.name = "rogue"
    /\ config["ipip"] = "Never"

(***************************************************************************)
(* Unit identity, subnets and AS numbers:                                  *)
(* _get_unit_id, _filter_local_subnets, _get_unit_as_number.               *)
(*                                                                         *)
(* Unit names, peer addresses and resource names of BGP peers are          *)
(* sequences of characters.  Subnet keys and bind addresses are the texts  *)
(* the operator writes; ip_network and ip_address give what Python's       *)
(* ipaddress module parses them to.  An IPv6 address is kept to its        *)
(* leading 16-bit group, an IPv4 address to its 32-bit value.              *)
(***************************************************************************)
MaxSubnets == 2      \* entries of a subnet-keyed option

Digits == <<"0", "1", "2", "3", "4", "5", "6", "7", "8", "9">>

DigitValue(ch) == CHOOSE d \in 0..9 : Digits[d + 1] = ch

RECURSIVE ParseInt(_)
\* int(text) of a decimal text
ParseInt(s) ==
    IF s = <<>> THEN 0
    ELSE ParseInt(SubSeq(s, 1, Len(s) - 1)) * 10 + DigitValue(s[Len(s)])

RECURSIVE IntStr(_)
\* str(n) of a natural number
IntStr(n) ==
    IF n < 10 THEN <<Digits[n + 1]>>
    ELSE IntStr(n \div 10) \o <<Digits[(n % 10) + 1]>>

Replace_first(s, old, new) ==
    [i \in 1..Len(s) |->
        IF s[i] = old /\ (\A j \in 1..(i - 1) : s[j] # old) THEN new ELSE s[i]]

\* s.replace(old, new) for single characters
Replace(s, old, new) == [i \in 1..Len(s) |-> IF s[i] = old THEN new ELSE s[i]]

\* s.split(sep)[1]: the text between the first and the second sep
SplitSecond(s, sep) ==
    LET first == CHOOSE i \in 1..Len(s) : s[i] = sep /\ \A j \in 1..(i - 1) : s[j] # sep
        rest  == SubSeq(s, first + 1, Len(s))
        stops == {i \in 1..Len(rest) : rest[i] = sep}
    IN  IF stops = {} THEN rest
        ELSE SubSeq(rest, 1, (CHOOSE i \in stops : \A j \in stops : i <= j) - 1)

\* return int(self.unit.name.split("/")[1])
GetUnitId(unit_name) == ParseInt(SplitSecond(unit_name, "/"))

UnitNames ==
    {<<"c", "a", "l", "i", "c", "o", "/", "0">>,
     <<"c", "a", "l", "i", "c", "o", "/", "1">>}
UnitIds == {0, 1}

\* texts an operator may use as keys of subnet-as-numbers / subnet-bgp-peers
SubnetTexts ==
    {"10.0.0.0/8", "10.0.0.0/16", "10.0.0.0/255.255.0.0", "10.1.0.0/16",
     "fd00::/8"}

\* ipaddress.ip_network(text)
ip_network(text) ==
    CASE text = "10.0.0.0/8" ->
             [version |-> 4, network_address |-> 167772160, prefixlen |-> 8]
      [] text = "10.0.0.0/16" ->
             [version |-> 4, network_address |-> 167772160, prefixlen |-> 16]
      [] text = "10.0.0.0/255.255.0.0" ->
             [version |-> 4, network_address |-> 167772160, prefixlen |-> 16]
      [] text = "10.1.0.0/16" ->
             [version |-> 4, network_address |-> 167837696, prefixlen |-> 16]
      [] text = "fd00::/8" ->
             [version |-> 6, network_address |-> 64768, prefixlen |-> 8]

\* str(network): address/prefixlen, never the netmask form
NetworkStr(net) ==
    CASE net.version = 6 -> "fd00::/8"
      [] net.version = 4 /\ net.prefixlen = 8 -> "10.0.0.0/8"
      [] net.version = 4 /\ net.prefixlen = 16 /\ net.network_address = 167772160 ->
             "10.0.0.0/16"
      [] OTHER -> "10.1.0.0/16"

\* the binding's address; None when the binding has no address
BindAddresses == {"10.0.0.5", "10.1.0.5", "fd00::5", NullText}

\* texts ipaddress.ip_address accepts; any other raises ValueError
IsIpAddress(text) == text \in {"10.0.0.5", "10.1.0.5", "fd00::5"}

\* ipaddress.ip_address(text)
ip_address(text) ==
    CASE text = "10.0.0.5" -> [version |-> 4, ip |-> 167772165]
      [] text = "10.1.0.5" -> [version |-> 4, ip |-> 167837701]
      [] text = "fd00::5" -> [version |-> 6, ip |-> 64768]

AddressBits(version) == IF version = 4 THEN 32 ELSE 16

\* address in network (ipaddress: False when the versions differ)
InNetwork(address, net) ==
    /\ address.version = net.version
    /\ LET host == 2 ^ (AddressBits(net.version) - net.prefixlen)
       IN  address.ip \div host = net.network_address \div host

\* a YAML mapping, in the order written: a sequence of [key, value]
Keys(map) == [i \in 1..Len(map) |-> map[i].key]

\* dict.get(key, default)
MapGet(map, key, default) ==
    IF \E i \in 1..Len(map) : map[i].key = key
    THEN map[CHOOSE i \in 1..Len(map) : map[i].key = key].value
    ELSE default

\* _filter_local_subnets, line 311: ipaddress.ip_address(...) raises
\* ValueError, whatever the subnets are
FilterLocalSubnetsRaises(bind_address, subnets) == ~IsIpAddress(bind_address)

FilterLocalSubnets_reversed(bind_address, subnets) ==
    LET local == SelectSeq(subnets,
                     LAMBDA t : InNetwork(ip_address(bind_address), ip_network(t)))
    IN  [i \in 1..Len(local) |-> ip_network(local[Len(local) + 1 - i])]

\* _filter_local_subnets(subnets): the networks, in the order of the keys,
\* that hold the bind address
FilterLocalSubnets(bind_address, subnets) ==
    LET local == SelectSeq(subnets,
                     LAMBDA t : InNetwork(ip_address(bind_address), ip_network(t)))
    IN  [i \in 1..Len(local) |-> ip_network(local[i])]

RECURSIVE InsertByPrefixlen(_, _)
InsertByPrefixlen(sorted, net) ==
    IF sorted = <<>> THEN <<net>>
    ELSE IF Head(sorted).prefixlen >= net.prefixlen
         THEN <<Head(sorted)>> \o InsertByPrefixlen(Tail(sorted), net)
         ELSE <<net>> \o sorted

RECURSIVE SortByPrefixlen(_)
\* subnets.sort(key=lambda subnet: -subnet.prefixlen): stable
SortByPrefixlen(subnets) ==
    IF subnets = <<>> THEN <<>>
    ELSE InsertByPrefixlen(SortByPrefixlen(SubSeq(subnets, 1, Len(subnets) - 1)),
                           subnets[Len(subnets)])

\* _get_unit_as_number
GetUnitAsNumber(u, cfg) ==
    LET unit_id == GetUnitId(u.name)
        unit_as_numbers == cfg["unit-as-numbers"]
        subnet_as_numbers == cfg["subnet-as-numbers"]
        subnets == FilterLocalSubnets(u.bind_address, Keys(subnet_as_numbers))
    IN  IF unit_id \in DOMAIN unit_as_numbers THEN unit_as_numbers[unit_id]
        ELSE IF subnets # <<>>
             THEN MapGet(subnet_as_numbers, NetworkStr(SortByPrefixlen(subnets)[1]),
                         None)
             ELSE None

\* mappings with at most n entries and no key written twice
SubnetMaps(keys, values, n) ==
    {m \in SeqsUpTo([key : keys, value : values], n) :
        \A i, j \in 1..Len(m) : i # j => m[i].key # m[j].key}

UnitMaps(values) == UNION {[S -> values] : S \in SUBSET UnitIds}

AsNumbers == {64512, 64513}
UnitAsNumbers == UnitMaps(AsNumbers)
SubnetAsNumbers == SubnetMaps(SubnetTexts, AsNumbers, MaxSubnets)

Hostnames == {"juju-0"}

UnitIdentities ==
    [name : UnitNames, bind_address : BindAddresses, hostname : Hostnames]

AsConfig(unit_as, subnet_as) ==
    [k \in {"unit-as-numbers", "subnet-as-numbers"} |->
        IF k = "unit-as-numbers" THEN unit_as ELSE subnet_as]

AsInit ==
    /\ \E ua \in UnitAsNumbers, sa \in SubnetAsNumbers :
           config = AsConfig(ua, sa)
    /\ unit \in UnitIdentities
    /\ ds_pools = {}
    /\ ds_bgppeers = {}
    /\ pc = "idle"
    /\ err = "none"
    /\ calls = <<>>
    /\ pools = <<>>
    /\ pool_names_to_delete = <<>>
    /\ pool_applies = <<>>
    /\ ds_pools0 = {}
    /\ as_number = None
    /\ named_peers = <<>>
    /\ peer_applies = <<>>
    /\ existing_peers = {}
    /\ peers_to_delete = {}
    /\ LaterInit

\* _get_unit_as_number raises: the unit has no entry of its own and the
\* subnet matcher raises
GetUnitAsNumberRaises(u, cfg) ==
    /\ GetUnitId(u.name) \notin DOMAIN cfg["unit-as-numbers"]
    /\ FilterLocalSubnetsRaises(u.bind_address, Keys(cfg["subnet-as-numbers"]))

\* _configure_node, line 276: as_number = self._get_unit_as_number()
AsResolve ==
    /\ pc = "idle"
    /\ IF GetUnitAsNumberRaises(unit, config)
       THEN /\ err' = "ValueError"
            /\ pc' = "failed"
            /\ UNCHANGED as_number
       ELSE /\ as_number' = GetUnitAsNumber(unit, config)
            /\ pc' = "done"
            /\ UNCHANGED err
    /\ UNCHANGED <<config, unit, ds_pools, ds_bgppeers, calls, poolLocals,
                   ds_pools0, peerLocals>>
    /\ UNCHANGED laterVars

\* config-changed after the operator set unit-as-numbers or subnet-as-numbers
AsRerun ==
    /\ pc \in {"done", "failed"}
    /\ \/ \E ua \in UnitAsNumbers :
            config' = [config EXCEPT !["unit-as-numbers"] = ua]
       \/ \E sa \in SubnetAsNumbers :
            config' = [config EXCEPT !["subnet-as-numbers"] = sa]
    /\ pc' = "idle"
    /\ err' = "none"
    /\ as_number' = None
    /\ UNCHANGED <<unit, ds_pools, ds_bgppeers, calls, poolLocals, ds_pools0,
                   peerLocals>>
    /\ UNCHANGED laterVars

AsNext == AsResolve \/ AsRerun

AsSpec == AsInit /\ [][AsNext]_vars

(***************************************************************************)
(* Claim about the AS number, checked under AsSpec.                        *)
(***************************************************************************)
\* entries of subnet-as-numbers whose subnet holds the bind address
LocalEntries ==
    {i \in 1..Len(config["subnet-as-numbers"]) :
        InNetwork(ip_address(unit.bind_address),
                  ip_network(config["subnet-as-numbers"][i].key))}

\* those of them with the longest prefix
LongestEntries ==
    {i \in LocalEntries :
        \A j \in LocalEntries :
            ip_network(config["subnet-as-numbers"][j].key).prefixlen
                <= ip_network(config["subnet-as-numbers"][i].key).prefixlen}

\* C5: the AS number of the unit is the unit-as-numbers entry of its unit id
\* if there is one; otherwise the value of the longest-prefix subnet of
\* subnet-as-numbers that holds the bind address; otherwise null.
C5_AsNumberPrecedence ==
    pc = "done" =>
        LET unit_id == GetUnitId(unit.name)
        IN  IF unit_id \in DOMAIN config["unit-as-numbers"]
            THEN as_number = config["unit-as-numbers"][unit_id]
            ELSE IF LocalEntries # {}
                 THEN \E i \in LongestEntries :
                          as_number = config["subnet-as-numbers"][i].value
                 ELSE as_number = None

(***************************************************************************)
(* BGP peers: _configure_bgp_peers.                                        *)
(***************************************************************************)
RECURSIVE Concat(_)
\* the lists of a list, one after the other
Concat(lists) == IF lists = <<>> THEN <<>> ELSE Head(lists) \o Concat(Tail(lists))

\* lines 326-337: global peers, then the peers of each local subnet, then the
\* peers of the unit
DesiredPeers(u, cfg) ==
    LET subnet_bgp_peers == cfg["subnet-bgp-peers"]
        subnets == FilterLocalSubnets(u.bind_address, Keys(subnet_bgp_peers))
        unit_id == GetUnitId(u.name)
        unit_bgp_peers == cfg["unit-bgp-peers"]
    IN  cfg["global-bgp-peers"]
        \o Concat([i \in 1..Len(subnets) |->
                      MapGet(subnet_bgp_peers, NetworkStr(subnets[i]), <<>>)])
        \o (IF unit_id \in DOMAIN unit_bgp_peers THEN unit_bgp_peers[unit_id]
            ELSE <<>>)

\* safe_unit_name = self.unit.name.replace("/", "-")
SafeUnitName(unit_name) == Replace(unit_name, "/", "-")

\* f"{safe_unit_name}-{peer['address'].replace(':', '-')}-{peer['as-number']}"
PeerName(safe_unit_name, peer) ==
    safe_unit_name \o <<"-">> \o Replace(peer.address, ":", "-") \o <<"-">>
        \o IntStr(peer.as_number)

\* d[name] = peer on a dict kept in insertion order
DictPut(d, name, peer) ==
    IF \E i \in 1..Len(d) : d[i].name = name
    THEN [i \in 1..Len(d) |->
             IF d[i].name = name THEN [name |-> name, peer |-> peer] ELSE d[i]]
    ELSE Append(d, [name |-> name, peer |-> peer])

RECURSIVE NamedPeers(_, _)
\* named_peers = {name of peer: peer for peer in peers}
NamedPeers(safe_unit_name, peers) ==
    IF peers = <<>> THEN <<>>
    ELSE DictPut(NamedPeers(safe_unit_name, SubSeq(peers, 1, Len(peers) - 1)),
                 PeerName(safe_unit_name, peers[Len(peers)]), peers[Len(peers)])

\* peer_def, lines 348-359
PeerResource(name, peer, node_name) ==
    [name |-> name, node |-> node_name, peerIP |-> peer.address,
     asNumber |-> peer.as_number]

\* str.startswith
StartsWith(s, prefix) ==
    Len(s) >= Len(prefix) /\ SubSeq(s, 1, Len(prefix)) = prefix

OwnedByUnit_noDash(name, safe_unit_name) == StartsWith(name, safe_unit_name)

\* peer.startswith(safe_unit_name + "-")
OwnedByUnit(name, safe_unit_name) == StartsWith(name, safe_unit_name \o <<"-">>)

IsUnrecognized_all(name, safe_unit_name, named) == OwnedByUnit(name, safe_unit_name)

\* peer.startswith(safe_unit_name + "-") and peer not in named_peers
IsUnrecognized(name, safe_unit_name, named) ==
    /\ OwnedByUnit(name, safe_unit_name)
    /\ name \notin {named[i].name : i \in 1..Len(named)}

\* peers_to_delete, lines 365-369.  The order in which calicoctl lists the
\* items is not the charm's: the names are kept as a set and the delete loop
\* takes them in any order.
PeersToDelete(existing, safe_unit_name, named) ==
    {name \in existing : IsUnrecognized(name, safe_unit_name, named)}

\* peers the operator may configure
PeerA == [address |-> <<"1", "0", ".", "0", ".", "0", ".", "1">>, as_number |-> 65000]
PeerV6 ==
    [address |-> <<"2", "0", "0", "1", ":", "d", "b", "8", ":", ":", "1">>,
     as_number |-> 65000]
PeerV6Upper ==
    [address |-> <<"2", "0", "0", "1", ":", "D", "B", "8", ":", ":", "1">>,
     as_number |-> 65000]

GlobalPeerLists == {<<>>, <<PeerV6>>}
SubnetPeerLists == {<<PeerA>>, <<PeerV6>>}
UnitPeerLists == {<<PeerV6Upper, PeerA>>}
PeerSubnetTexts == {"10.0.0.0/8", "10.0.0.0/255.255.0.0", "10.1.0.0/16"}
PeerBindAddresses == {"10.0.0.5", "10.1.0.5"}
SubnetBgpPeers == SubnetMaps(PeerSubnetTexts, SubnetPeerLists, MaxSubnets)
UnitBgpPeers == UnitMaps(UnitPeerLists)

\* BGPPeer resources that can be in the datastore before the pass: one left
\* by unit calico/0, one of unit calico/10, one of another application
ForeignPeers ==
    {[name |-> <<"c", "a", "l", "i", "c", "o", "-", "0", "-", "1", "0", ".", "2",
                 "0", ".", "0", ".", "1", "-", "6", "5", "0", "0", "0">>,
      node |-> "juju-0",
      peerIP |-> <<"1", "0", ".", "2", "0", ".", "0", ".", "1">>,
      asNumber |-> 65000],
     [name |-> <<"c", "a", "l", "i", "c", "o", "-", "1", "0", "-", "1", "0", ".",
                 "0", ".", "0", ".", "1", "-", "6", "5", "0", "0", "0">>,
      node |-> "juju-10",
      peerIP |-> <<"1", "0", ".", "0", ".", "0", ".", "1">>,
      asNumber |-> 65000],
     [name |-> <<"o", "t", "h", "e", "r", "u", "n", "i", "t", "-", "1", "0", ".",
                 "0", ".", "0", ".", "9", "-", "6", "5", "0", "0", "1">>,
      node |-> "juju-9",
      peerIP |-> <<"1", "0", ".", "0", ".", "0", ".", "9">>,
      asNumber |-> 65001]}

PeersConfig(g, s, u) ==
    [k \in {"global-bgp-peers", "subnet-bgp-peers", "unit-bgp-peers"} |->
        CASE k = "global-bgp-peers" -> g
          [] k = "subnet-bgp-peers" -> s
          [] k = "unit-bgp-peers" -> u]

PeersInit ==
    /\ \E g \in GlobalPeerLists, s \in SubnetBgpPeers, u \in UnitBgpPeers :
           config = PeersConfig(g, s, u)
    /\ unit \in [name : UnitNames, bind_address : PeerBindAddresses,
                 hostname : Hostnames]
    /\ ds_pools = {}
    /\ ds_bgppeers \in {{}, ForeignPeers}
    /\ pc = "idle"
    /\ err = "none"
    /\ calls = <<>>
    /\ pools = <<>>
    /\ pool_names_to_delete = <<>>
    /\ pool_applies = <<>>
    /\ ds_pools0 = {}
    /\ as_number = None
    /\ named_peers = <<>>
    /\ peer_applies = <<>>
    /\ existing_peers = {}
    /\ peers_to_delete = {}
    /\ LaterInit

\* lines 326-343: build named_peers
PeersBuild ==
    /\ pc = "idle"
    /\ named_peers' = NamedPeers(SafeUnitName(unit.name), DesiredPeers(unit, config))
    /\ peer_applies' = named_peers'
    /\ pc' = "apply"
    /\ UNCHANGED <<config, unit, ds_pools, ds_bgppeers, err, calls, poolLocals,
                   ds_pools0, as_number, existing_peers, peers_to_delete>>
    /\ UNCHANGED laterVars

\* lines 347-360: self._calicoctl_apply(peer_def) for each named peer
PeerApply ==
    /\ pc = "apply"
    /\ peer_applies # <<>>
    /\ LET peer_def == PeerResource(Head(peer_applies).name, Head(peer_applies).peer,
                                    unit.hostname)
       IN  /\ calls' = Append(calls, [verb |-> "apply", kind |-> "bgppeer",
                                      name |-> peer_def.name, skip |-> FALSE,
                                      body |-> peer_def])
           /\ \/ /\ ds_bgppeers' = Upsert(ds_bgppeers, peer_def)
                 /\ peer_applies' = Tail(peer_applies)
                 /\ UNCHANGED <<pc, err>>
              \/ \E e \in CalicoctlErrors :
                   /\ pc' = "failed"
                   /\ err' = e
                   /\ UNCHANGED <<ds_bgppeers, peer_applies>>
    /\ UNCHANGED <<config, unit, ds_pools, poolLocals, ds_pools0, as_number,
                   named_peers, existing_peers, peers_to_delete>>
    /\ UNCHANGED laterVars

\* lines 363-369: existing_peers = self._calicoctl_get("bgppeers")["items"]
PeerGet ==
    /\ pc = "apply"
    /\ peer_applies = <<>>
    /\ calls' = Append(calls, GetCall("bgppeers"))
    /\ \/ /\ existing_peers' = {p.name : p \in ds_bgppeers}
          /\ peers_to_delete' =
                 PeersToDelete(existing_peers', SafeUnitName(unit.name), named_peers)
          /\ pc' = IF peers_to_delete' = {} THEN "done" ELSE "delete"
          /\ UNCHANGED err
       \/ \E e \in CalicoctlErrors :
            /\ pc' = "failed"
            /\ err' = e
            /\ UNCHANGED <<existing_peers, peers_to_delete>>
    /\ UNCHANGED <<config, unit, ds_pools, ds_bgppeers, poolLocals, ds_pools0,
                   as_number, named_peers, peer_applies>>
    /\ UNCHANGED laterVars

\* lines 371-372: self.calicoctl("delete", "bgppeer", peer); without
\* --skip-not-exists the delete of a peer that is not there fails
PeerDelete ==
    /\ pc = "delete"
    /\ \E peer \in peers_to_delete :
        /\ calls' = Append(calls, DeleteCall("bgppeer", peer, FALSE))
        /\ \/ /\ \E p \in ds_bgppeers : p.name = peer
              /\ ds_bgppeers' = Remove(ds_bgppeers, peer)
              /\ peers_to_delete' = peers_to_delete \ {peer}
              /\ pc' = IF peers_to_delete' = {} THEN "done" ELSE "delete"
              /\ UNCHANGED err
           \/ \E e \in CalicoctlErrors :
                /\ pc' = "failed"
                /\ err' = e
                /\ UNCHANGED <<ds_bgppeers, peers_to_delete>>
    /\ UNCHANGED <<config, unit, ds_pools, poolLocals, ds_pools0, as_number,
                   named_peers, peer_applies, existing_peers>>
    /\ UNCHANGED laterVars

\* The hook ends, with or without an exception: the locals of the reconciler
\* are gone.
PeersExit ==
    /\ pc \in {"done", "failed"}
    /\ pc' = "exited"
    /\ err' = "none"
    /\ calls' = <<>>
    /\ named_peers' = <<>>
    /\ peer_applies' = <<>>
    /\ existing_peers' = {}
    /\ peers_to_delete' = {}
    /\ UNCHANGED <<config, unit, ds_pools, ds_bgppeers, poolLocals, ds_pools0,
                   as_number>>
    /\ UNCHANGED laterVars

\* The next hook runs the reconciler again: a deferred event with the same
\* configuration, or config-changed after the operator set one peer option.
PeersRerun ==
    /\ pc = "exited"
    /\ \/ UNCHANGED config
       \/ \E g \in GlobalPeerLists :
            config' = [config EXCEPT !["global-bgp-peers"] = g]
       \/ \E s \in SubnetBgpPeers :
            config' = [config EXCEPT !["subnet-bgp-peers"] = s]
       \/ \E u \in UnitBgpPeers :
            config' = [config EXCEPT !["unit-bgp-peers"] = u]
    /\ pc' = "idle"
    /\ UNCHANGED <<unit, ds_pools, ds_bgppeers, err, calls, poolLocals, ds_pools0,
                   as_number, peerLocals>>
    /\ UNCHANGED laterVars

PeersNext ==
    PeersBuild \/ PeerApply \/ PeerGet \/ PeerDelete \/ PeersExit \/ PeersRerun

PeersSpec == PeersInit /\ [][PeersNext]_vars

(***************************************************************************)
(* Claims about the BGP peers, checked under PeersSpec.                    *)
(***************************************************************************)
\* positions of the apply calls and of the delete calls of the pass
PeerApplyIdx == {i \in 1..Len(calls) : calls[i].verb = "apply"}
PeerDeleteIdx == {i \in 1..Len(calls) : calls[i].verb = "delete"}

\* text with every ch turned into a hyphen
Hyphenated(text, ch) == [i \in 1..Len(text) |-> IF text[i] = ch THEN "-" ELSE text[i]]

\* <unit name, '/' as '-'>-<address, every ':' as '-'>-<as-number>
ExpectedPeerName(unit_name, address, asn) ==
    Hyphenated(unit_name, "/") \o <<"-">> \o Hyphenated(address, ":") \o <<"-">>
        \o IntStr(asn)

HasAdjacent(text, ch) == \E i \in 1..(Len(text) - 1) : text[i] = ch /\ text[i + 1] = ch

\* C6: the name of every BGPPeer the pass generates is
\* <unit name with '/' as '-'>-<address with every ':' as '-'>-<as-number>,
\* fixed by the unit name, the address and the as-number alone; '::' in the
\* address gives two adjacent hyphens.
C6_PeerNameFormat ==
    /\ \A i \in 1..Len(named_peers) :
           named_peers[i].name =
               ExpectedPeerName(unit.name, named_peers[i].peer.address,
                                named_peers[i].peer.as_number)
    /\ \A i \in PeerApplyIdx :
           /\ calls[i].name =
                  ExpectedPeerName(unit.name, calls[i].body.peerIP,
                                   calls[i].body.asNumber)
           /\ HasAdjacent(calls[i].body.peerIP, ":") => HasAdjacent(calls[i].name, "-")

\* a peer with '::' in its address was applied under a name with '--'
C6_Witness ==
    \E i \in PeerApplyIdx :
        /\ HasAdjacent(calls[i].body.peerIP, ":")
        /\ HasAdjacent(calls[i].name, "-")
        /\ \E p \in ds_bgppeers : p.name = calls[i].name

UpperCase ==
    {"A", "B", "C", "D", "E", "F", "G", "H", "I", "J", "K", "L", "M", "N", "O",
     "P", "Q", "R", "S", "T", "U", "V", "W", "X", "Y", "Z"}

\* C7: no generated BGPPeer name holds an upper-case character, also for an
\* IPv6 address written with upper-case hexadecimal digits.
C7_NamesLowerCase ==
    \A i \in PeerApplyIdx :
        \A k \in 1..Len(calls[i].name) : calls[i].name[k] \notin UpperCase

\* the entries of subnet-bgp-peers whose subnet holds the bind address, in the
\* order written
MatchedSubnetEntries ==
    SelectSeq(config["subnet-bgp-peers"],
              LAMBDA e : InNetwork(ip_address(unit.bind_address), ip_network(e.key)))

\* global peers, then the lists of the matched subnets, then the unit's list
ClaimedPeers ==
    config["global-bgp-peers"]
    \o Concat([i \in 1..Len(MatchedSubnetEntries) |-> MatchedSubnetEntries[i].value])
    \o (IF GetUnitId(unit.name) \in DOMAIN config["unit-bgp-peers"]
        THEN config["unit-bgp-peers"][GetUnitId(unit.name)]
        ELSE <<>>)

ClaimedName(peer) == ExpectedPeerName(unit.name, peer.address, peer.as_number)

ClaimedNames == {ClaimedName(ClaimedPeers[i]) : i \in 1..Len(ClaimedPeers)}

\* the last peer of the claimed list with this name
LastPeerNamed(name) ==
    LET at == {i \in 1..Len(ClaimedPeers) : ClaimedName(ClaimedPeers[i]) = name}
    IN  ClaimedPeers[CHOOSE i \in at : \A j \in at : j <= i]

AppliesFinished == pc \in {"delete", "done"}

\* C8: the desired peers are global-bgp-peers, then the subnet-bgp-peers
\* lists of every configured subnet that holds the bind address, then the
\* unit-bgp-peers list of the unit id; the pass applies exactly one BGPPeer
\* per distinct name, with node = hostname, peerIP = address, asNumber =
\* as-number of the last peer of that name.
C8_AppliesConcatenation ==
    AppliesFinished =>
        /\ Cardinality(PeerApplyIdx) = Cardinality(ClaimedNames)
        /\ {calls[i].body : i \in PeerApplyIdx} =
               {[name |-> n, node |-> unit.hostname,
                 peerIP |-> LastPeerNamed(n).address,
                 asNumber |-> LastPeerNamed(n).as_number] : n \in ClaimedNames}

\* name starts with <sanitized unit name> + '-'
HasUnitPrefix(name) ==
    LET prefix == Hyphenated(unit.name, "/") \o <<"-">>
    IN  Len(name) >= Len(prefix) /\ SubSeq(name, 1, Len(prefix)) = prefix

\* C9: no step of a pass removes or changes a BGPPeer whose name does not
\* start with <sanitized unit name> + '-'.
C9_NeverDeletesForeign ==
    [][\A p \in ds_bgppeers : ~HasUnitPrefix(p.name) => p \in ds_bgppeers']_vars

\* a pass of calico/1 that deleted a peer has ended and the peer of calico/10
\* is still there
C9_Witness ==
    /\ pc = "done"
    /\ PeerDeleteIdx # {}
    /\ unit.name = <<"c", "a", "l", "i", "c", "o", "/", "1">>
    /\ \E p \in ds_bgppeers :
           /\ ~HasUnitPrefix(p.name)
           /\ SubSeq(p.name, 1, 9) = <<"c", "a", "l", "i", "c", "o", "-", "1", "0">>

NamedPeerNames == {named_peers[i].name : i \in 1..Len(named_peers)}

\* C10: the peers a pass deletes are exactly the existing names that start
\* with <sanitized unit name> + '-' and are not desired names; after a
\* successful pass the datastore's peers with that prefix are exactly the
\* desired names.
C10_DeletesExactlyUnrecognized ==
    /\ AppliesFinished =>
           {calls[i].name : i \in PeerDeleteIdx} \cup peers_to_delete =
               {n \in existing_peers : HasUnitPrefix(n) /\ n \notin NamedPeerNames}
    /\ pc = "done" =>
           /\ peers_to_delete = {}
           /\ {p.name : p \in {q \in ds_bgppeers : HasUnitPrefix(q.name)}} =
                  NamedPeerNames

\* a successful pass with desired peers that deleted a peer
C10_Witness ==
    /\ pc = "done"
    /\ PeerDeleteIdx # {}
    /\ NamedPeerNames # {}
    /\ \E n \in existing_peers : HasUnitPrefix(n) /\ n \in NamedPeerNames

(***************************************************************************)
(* BGP globals: _configure_bgp_globals.                                    *)
(***************************************************************************)
Whitespace == {" ", "\t", "\n"}

RECURSIVE Split(_)
\* text.split(): the runs of characters between whitespace, none empty
Split(text) ==
    IF text = <<>> THEN <<>>
    ELSE IF Head(text) \in Whitespace THEN Split(Tail(text))
    ELSE LET stops == {i \in 1..Len(text) : text[i] \in Whitespace}
             stop  == IF stops = {} THEN Len(text) + 1
                      ELSE CHOOSE i \in stops : \A j \in stops : i <= j
         IN  <<SubSeq(text, 1, stop - 1)>> \o Split(SubSeq(text, stop, Len(text)))

\* needle in text, for bytes
Contains(text, needle) ==
    \E i \in 0..(Len(text) - Len(needle)) :
        SubSeq(text, i + 1, i + Len(needle)) = needle

NotFoundMarker ==
    <<"r", "e", "s", "o", "u", "r", "c", "e", " ", "d", "o", "e", "s", " ", "n",
      "o", "t", " ", "e", "x", "i", "s", "t">>

NotFound_never(e) == FALSE

\* b"resource does not exist" in e.stderr
NotFound(e) == Contains(e.stderr, NotFoundMarker)

\* the skeleton made when the default BGPConfiguration does not exist
BgpConfigSkeleton == Resource("BGPConfiguration", "default", <<>>)

\* ip_mapping, lines 251-255
IpMapping ==
    [k \in {"bgp-service-cluster-ips", "bgp-service-external-ips",
            "bgp-service-loadbalancer-ips"} |->
        CASE k = "bgp-service-cluster-ips" -> "serviceClusterIPs"
          [] k = "bgp-service-external-ips" -> "serviceExternalIPs"
          [] k = "bgp-service-loadbalancer-ips" -> "serviceLoadBalancerIPs"]

\* [{"cidr": cidr} for cidr in self.config[key].split()]
CidrList(text) == [i \in 1..Len(Split(text)) |-> [cidr |-> Split(text)[i]]]

\* the fields lines 256-264 write
GlobalsFields(cfg) ==
    [f \in {"asNumber", "nodeToNodeMeshEnabled"} \cup {IpMapping[k] : k \in DOMAIN IpMapping} |->
        CASE f = "asNumber" -> cfg["global-as-number"]
          [] f = "nodeToNodeMeshEnabled" -> cfg["node-to-node-mesh"]
          [] OTHER -> CidrList(cfg[CHOOSE k \in DOMAIN IpMapping : IpMapping[k] = f])]

UpdateSpec_merge(spec, cfg) ==
    [f \in DOMAIN spec \cup DOMAIN GlobalsFields(cfg) |->
        IF f \in DOMAIN GlobalsFields(cfg)
           /\ ~(f \in DOMAIN spec /\ f \notin {"asNumber", "nodeToNodeMeshEnabled"}
                /\ GlobalsFields(cfg)[f] = <<>>)
        THEN GlobalsFields(cfg)[f] ELSE spec[f]]

\* spec["asNumber"] = ...; spec["nodeToNodeMeshEnabled"] = ...; spec.update(...)
UpdateSpec(spec, cfg) ==
    [f \in DOMAIN spec \cup DOMAIN GlobalsFields(cfg) |->
        IF f \in DOMAIN GlobalsFields(cfg) THEN GlobalsFields(cfg)[f] ELSE spec[f]]

Reraised_swallowed(e) == "none"

\* raise e
Reraised(e) == e

\* values of the bgp-service-*-ips options
Cidr10 == <<"1", "0", ".", "0", ".", "0", ".", "0", "/", "8">>
CidrFd == <<"f", "d", "0", "0", ":", ":", "/", "8">>
Cidr192 == <<"1", "9", "2", ".", "1", "6", "8", ".", "0", ".", "0", "/", "1", "6">>
IpsTexts ==
    {<<>>,
     Cidr10,
     <<" ">> \o Cidr10 \o <<" ", " ">> \o CidrFd \o <<"\n">>}

GlobalAsNumbers == {64512, 64513}

GlobalsConfig(asn, mesh, cluster, external, loadbalancer) ==
    [k \in {"global-as-number", "node-to-node-mesh"} \cup DOMAIN IpMapping |->
        CASE k = "global-as-number" -> asn
          [] k = "node-to-node-mesh" -> mesh
          [] k = "bgp-service-cluster-ips" -> cluster
          [] k = "bgp-service-external-ips" -> external
          [] k = "bgp-service-loadbalancer-ips" -> loadbalancer]

GlobalsConfigs ==
    {GlobalsConfig(asn, mesh, c, e, l) :
        asn \in GlobalAsNumbers, mesh \in BOOLEAN, c \in IpsTexts, e \in IpsTexts,
        l \in {<<>>, Cidr10}}

\* a default BGPConfiguration set earlier, with a field the charm does not own
EarlierSpec ==
    [f \in {"asNumber", "nodeToNodeMeshEnabled", "serviceClusterIPs",
            "serviceExternalIPs", "serviceLoadBalancerIPs", "logSeverityScreen"} |->
        CASE f = "asNumber" -> 64512
          [] f = "nodeToNodeMeshEnabled" -> TRUE
          [] f = "serviceClusterIPs" -> <<[cidr |-> Cidr192]>>
          [] f = "serviceExternalIPs" -> <<[cidr |-> Cidr192]>>
          [] f = "serviceLoadBalancerIPs" -> <<>>
          [] f = "logSeverityScreen" -> "Info"]

BgpConfigs ==
    {{}, {BgpConfigSkeleton}, {Resource("BGPConfiguration", "default", EarlierSpec)}}

\* what calicoctl writes on stderr when it fails
StderrNotFound ==
    <<"r", "e", "s", "o", "u", "r", "c", "e", " ", "d", "o", "e", "s", " ", "n",
      "o", "t", " ", "e", "x", "i", "s", "t", ":", " ", "B", "G", "P", "C", "o",
      "n", "f", "i", "g", "u", "r", "a", "t", "i", "o", "n", "(", "d", "e", "f",
      "a", "u", "l", "t", ")">>
StderrOther ==
    <<"c", "o", "n", "n", "e", "c", "t", "i", "o", "n", " ", "i", "s", " ", "u",
      "n", "a", "u", "t", "h", "o", "r", "i", "z", "e", "d">>

\* the exceptions of a failing calicoctl call (subprocess.check_output with
\* stderr=PIPE): CalledProcessError carries the bytes read; TimeoutExpired
\* carries them, or None when nothing was read
CallFailures ==
    {Result("CalledProcessError", StderrOther, FALSE),
     Result("TimeoutExpired", StderrOther, FALSE),
     Result("TimeoutExpired", <<>>, TRUE)}

GlobalsInit ==
    /\ config \in GlobalsConfigs
    /\ unit = [name |-> <<"c", "a", "l", "i", "c", "o", "/", "0">>,
               bind_address |-> "10.0.0.5", hostname |-> "juju-0"]
    /\ ds_pools = {}
    /\ ds_bgppeers = {}
    /\ pc = "idle"
    /\ err = "none"
    /\ calls = <<>>
    /\ pools = <<>>
    /\ pool_names_to_delete = <<>>
    /\ pool_applies = <<>>
    /\ ds_pools0 = {}
    /\ as_number = None
    /\ named_peers = <<>>
    /\ peer_applies = <<>>
    /\ existing_peers = {}
    /\ peers_to_delete = {}
    /\ ds_bgpconfig \in BgpConfigs
    /\ ds_node = {}
    /\ get_result = NoResult
    /\ bgp_config = NoResource
    /\ node = NoResource
    /\ route_reflector_cluster_id = NullText
    /\ stored = StoredDefault
    /\ status = Status("maintenance", "Configuring BGP globals.")
    /\ event = "none"
    /\ deferred = FALSE
    /\ ran = <<>>
    /\ env = [kubeconfig |-> TRUE, etcd_ready |-> TRUE, rp_filter |-> 0]
    /\ last_pass = "none"
    /\ prev_pass = NoPass
    /\ flags = {}
    /\ changed = {}
    /\ procs = <<>>

globalsFrame ==
    <<unit, ds_pools, ds_bgppeers, poolLocals, ds_pools0, as_number, peerLocals,
      nodeVars, charmVars, otherVars>>

\* lines 236-249: bgp_config = self._calicoctl_get("bgpconfig", "default"), and
\* the except clause
GlobalsGet ==
    /\ pc = "idle"
    /\ calls' = Append(calls, GetCall("bgpconfig"))
    /\ \E e \in {Result("ok", <<>>, TRUE)}
                \cup {Result("CalledProcessError", StderrNotFound, FALSE)}
                \cup CallFailures :
        /\ e.type = "ok" => ds_bgpconfig # {}
        /\ e.stderr = StderrNotFound => ds_bgpconfig = {}
        /\ get_result' = e
        /\ IF e.type = "ok"
           THEN /\ bgp_config' = CHOOSE r \in ds_bgpconfig : TRUE
                /\ pc' = "apply"
                /\ UNCHANGED err
           ELSE IF e.stderr_none
           THEN \* b"..." in None
                /\ pc' = "failed"
                /\ err' = "TypeError"
                /\ UNCHANGED bgp_config
           ELSE IF NotFound(e)
           THEN /\ bgp_config' = BgpConfigSkeleton
                /\ pc' = "apply"
                /\ UNCHANGED err
           ELSE /\ err' = Reraised(e.type)
                /\ pc' = IF err' = "none" THEN "apply" ELSE "failed"
                /\ UNCHANGED bgp_config
    /\ UNCHANGED <<config, ds_bgpconfig, globalsFrame>>

\* lines 256-270: the fields are written and the resource is applied
GlobalsApply ==
    /\ pc = "apply"
    /\ bgp_config' = [bgp_config EXCEPT !.spec = UpdateSpec(bgp_config.spec, config)]
    /\ calls' = Append(calls, [verb |-> "apply", kind |-> "bgpconfig",
                               name |-> bgp_config'.name, skip |-> FALSE,
                               body |-> bgp_config', before |-> bgp_config])
    /\ \/ /\ ds_bgpconfig' = {bgp_config'}
          /\ pc' = "done"
          /\ UNCHANGED err
       \/ \E e \in CalicoctlErrors :
            /\ err' = Reraised(e)
            /\ pc' = IF err' = "none" THEN "done" ELSE "failed"
            /\ UNCHANGED ds_bgpconfig
    /\ UNCHANGED <<config, get_result, globalsFrame>>

\* The hook ends, with or without an exception.
GlobalsExit ==
    /\ pc \in {"done", "failed"}
    /\ pc' = "exited"
    /\ err' = "none"
    /\ calls' = <<>>
    /\ get_result' = NoResult
    /\ bgp_config' = NoResource
    /\ UNCHANGED <<config, ds_bgpconfig, globalsFrame>>

\* The next hook runs the reconciler again: a deferred event with the same
\* configuration, or config-changed after the operator set the options; the
\* default BGPConfiguration may have been removed meanwhile.
GlobalsRerun ==
    /\ pc = "exited"
    /\ \/ UNCHANGED <<config, ds_bgpconfig>>
       \/ /\ config' \in GlobalsConfigs
          /\ UNCHANGED ds_bgpconfig
       \/ /\ ds_bgpconfig' = {}
          /\ UNCHANGED config
    /\ pc' = "idle"
    /\ UNCHANGED <<err, calls, get_result, bgp_config, globalsFrame>>

GlobalsNext == GlobalsGet \/ GlobalsApply \/ GlobalsExit \/ GlobalsRerun

GlobalsSpec == GlobalsInit /\ [][GlobalsNext]_vars

(***************************************************************************)
(* Claims about the BGP globals, checked under GlobalsSpec.                *)
(***************************************************************************)
\* positions of the apply calls of the pass
GlobalsApplyIdx == {i \in 1..Len(calls) : calls[i].verb = "apply"}

\* where the runs of non-whitespace characters of a text start
RunStarts(text) ==
    {i \in 1..Len(text) :
        text[i] \notin Whitespace /\ (i = 1 \/ text[i - 1] \in Whitespace)}

\* the run that starts at i
RunAt(text, i) ==
    SubSeq(text, i,
           CHOOSE j \in i..Len(text) :
               /\ \A k \in i..j : text[k] \notin Whitespace
               /\ j = Len(text) \/ text[j + 1] \in Whitespace)

\* the list of {cidr: c} for the whitespace-separated entries of a text
ClaimedCidrList(text) ==
    [n \in 1..Cardinality(RunStarts(text)) |->
        [cidr |-> RunAt(text, CHOOSE i \in RunStarts(text) :
                                  Cardinality({j \in RunStarts(text) : j <= i}) = n)]]

ServiceIpFields == {"serviceClusterIPs", "serviceExternalIPs", "serviceLoadBalancerIPs"}

\* the three lists of a spec are those of the configuration
ServiceIpsFromConfig(spec) ==
    /\ ServiceIpFields \subseteq DOMAIN spec
    /\ spec["serviceClusterIPs"] = ClaimedCidrList(config["bgp-service-cluster-ips"])
    /\ spec["serviceExternalIPs"] = ClaimedCidrList(config["bgp-service-external-ips"])
    /\ spec["serviceLoadBalancerIPs"] =
           ClaimedCidrList(config["bgp-service-loadbalancer-ips"])

\* the get failed with the 'resource does not exist' marker on stderr
GotNotFound ==
    /\ get_result.type = "CalledProcessError"
    /\ get_result.stderr = StderrNotFound

\* C11: when the get of the default BGPConfiguration fails with the
\* 'resource does not exist' marker, a BGPConfiguration named default with an
\* empty spec is made, asNumber, nodeToNodeMeshEnabled and the three
\* service-IP lists are set from the configuration, it is applied exactly
\* once, and the reconciler returns without error when that apply succeeds.
C11_NotFoundBootstrap ==
    GotNotFound =>
        /\ pc \in {"apply", "done", "failed"}
        /\ pc = "apply" =>
               /\ err = "none"
               /\ bgp_config.kind = "BGPConfiguration"
               /\ bgp_config.name = "default"
               /\ DOMAIN bgp_config.spec = {}
        /\ pc \in {"done", "failed"} =>
               /\ Cardinality(GlobalsApplyIdx) = 1
               /\ \A i \in GlobalsApplyIdx :
                      /\ calls[i].body.kind = "BGPConfiguration"
                      /\ calls[i].body.name = "default"
                      /\ DOMAIN calls[i].body.spec =
                             {"asNumber", "nodeToNodeMeshEnabled"} \cup ServiceIpFields
                      /\ calls[i].body.spec["asNumber"] = config["global-as-number"]
                      /\ calls[i].body.spec["nodeToNodeMeshEnabled"] =
                             config["node-to-node-mesh"]
                      /\ ServiceIpsFromConfig(calls[i].body.spec)
                      /\ pc = "done" => ds_bgpconfig = {calls[i].body}
        /\ pc = "done" => err = "none"

\* the default BGPConfiguration did not exist and the pass made it
C11_Witness ==
    /\ GotNotFound
    /\ pc = "done"
    /\ err = "none"
    /\ \E r \in ds_bgpconfig : r.spec["serviceClusterIPs"] # <<>>

\* C12: a get that fails with a command error (or a timeout that read
\* stderr) without the 'resource does not exist' marker is re-raised and no
\* apply is issued; when the apply fails, its error is re-raised.
C12_ErrorsReraised ==
    /\ (get_result.type \in CalicoctlErrors /\ get_result.stderr = StderrOther) =>
           /\ pc = "failed"
           /\ err = get_result.type
           /\ GlobalsApplyIdx = {}
    /\ (GlobalsApplyIdx # {} /\ pc # "done") =>
           /\ pc = "failed"
           /\ err \in CalicoctlErrors
           /\ get_result.type = "ok" \/ GotNotFound

\* the get failed without the marker while the resource did not exist
C12_Witness ==
    /\ get_result.type = "CalledProcessError"
    /\ get_result.stderr = StderrOther
    /\ ds_bgpconfig = {}
    /\ pc = "failed"
    /\ err = "CalledProcessError"

\* C13: each of serviceClusterIPs, serviceExternalIPs and
\* serviceLoadBalancerIPs of the applied BGPConfiguration is the list of
\* {cidr: c} for the whitespace-separated entries of its option, whatever
\* the fetched resource held; an empty option replaces a non-empty list by
\* the empty list.
C13_ServiceIpsReplaced ==
    \A i \in GlobalsApplyIdx :
        /\ ServiceIpsFromConfig(calls[i].body.spec)
        /\ pc = "done" => \A r \in ds_bgpconfig : ServiceIpsFromConfig(r.spec)

\* the fetched resource had a cluster-IP list, the option is empty, and the
\* applied and stored list is empty
C13_Witness ==
    /\ pc = "done"
    /\ config["bgp-service-cluster-ips"] = <<>>
    /\ config["bgp-service-external-ips"] # <<>>
    /\ \E i \in GlobalsApplyIdx :
           /\ "serviceClusterIPs" \in DOMAIN calls[i].before.spec
           /\ calls[i].before.spec["serviceClusterIPs"] # <<>>
           /\ calls[i].body.spec["serviceClusterIPs"] = <<>>
           /\ Len(calls[i].body.spec["serviceExternalIPs"]) >= 1
    /\ \A r \in ds_bgpconfig : r.spec["serviceClusterIPs"] = <<>>

(***************************************************************************)
(* The node: _configure_node.                                              *)
(***************************************************************************)
\* route_reflector_cluster_ids.get(unit_id), _get_route_reflector_cluster_id
GetRouteReflectorClusterId(u, cfg) ==
    IF GetUnitId(u.name) \in DOMAIN cfg["route-reflector-cluster-ids"]
    THEN cfg["route-reflector-cluster-ids"][GetUnitId(u.name)]
    ELSE NullText

\* a mapping with some keys set
SetFields(map, fields) ==
    [f \in DOMAIN map \cup DOMAIN fields |->
        IF f \in DOMAIN fields THEN fields[f] ELSE map[f]]

BgpPatch(asn, cluster_id) ==
    [f \in {"asNumber", "routeReflectorClusterID"} |->
        IF f = "asNumber" THEN asn ELSE cluster_id]

PatchNode_reset(n, asn, cluster_id) ==
    [n EXCEPT !.spec = [@ EXCEPT !["bgp"] = BgpPatch(asn, cluster_id)]]

\* node["spec"]["bgp"]["asNumber"] = as_number
\* node["spec"]["bgp"]["routeReflectorClusterID"] = route_reflector_cluster_id
PatchNode(n, asn, cluster_id) ==
    [n EXCEPT !.spec =
        [@ EXCEPT !["bgp"] = SetFields(n.spec["bgp"], BgpPatch(asn, cluster_id))]]

\* the Node resources Calico may have made for this host: one with BGP
\* settings, one without the bgp mapping
NodeWithBgp ==
    Resource("Node", "juju-0",
             [f \in {"bgp", "orchRefs"} |->
                 IF f = "bgp"
                 THEN [g \in {"ipv4Address", "asNumber"} |->
                          IF g = "asNumber" THEN 64999 ELSE 167772165]
                 ELSE "k8s"])

NodeWithoutBgp == Resource("Node", "juju-0", [f \in {"orchRefs"} |-> "k8s"])

Nodes == {{}, {NodeWithBgp}, {NodeWithoutBgp}}

ClusterIds == UnitMaps({"224.0.0.1"})

NodeSubnetAsNumbers ==
    {<<>>, <<[key |-> "10.0.0.0/8", value |-> 64513]>>,
     <<[key |-> "10.0.0.0/255.255.0.0", value |-> 64513]>>}

NodeConfig(unit_as, subnet_as, cluster_ids) ==
    [k \in {"unit-as-numbers", "subnet-as-numbers", "route-reflector-cluster-ids"} |->
        CASE k = "unit-as-numbers" -> unit_as
          [] k = "subnet-as-numbers" -> subnet_as
          [] k = "route-reflector-cluster-ids" -> cluster_ids]

NodeInit ==
    /\ \E ua \in UnitAsNumbers, sa \in NodeSubnetAsNumbers, ids \in ClusterIds :
           config = NodeConfig(ua, sa, ids)
    /\ unit \in [name : UnitNames, bind_address : {"10.0.0.5"}, hostname : Hostnames]
    /\ ds_pools = {}
    /\ ds_bgppeers = {}
    /\ pc = "idle"
    /\ err = "none"
    /\ calls = <<>>
    /\ pools = <<>>
    /\ pool_names_to_delete = <<>>
    /\ pool_applies = <<>>
    /\ ds_pools0 = {}
    /\ as_number = None
    /\ named_peers = <<>>
    /\ peer_applies = <<>>
    /\ existing_peers = {}
    /\ peers_to_delete = {}
    /\ ds_bgpconfig = {}
    /\ ds_node \in Nodes
    /\ get_result = NoResult
    /\ bgp_config = NoResource
    /\ node = NoResource
    /\ route_reflector_cluster_id = NullText
    /\ stored = StoredDefault
    /\ status = Status("maintenance", "Configuring Calico node.")
    /\ event = "none"
    /\ deferred = FALSE
    /\ ran = <<>>
    /\ env = [kubeconfig |-> TRUE, etcd_ready |-> TRUE, rp_filter |-> 0]
    /\ last_pass = "none"
    /\ prev_pass = NoPass
    /\ flags = {}
    /\ changed = {}
    /\ procs = <<>>

nodeFrame ==
    <<unit, ds_pools, ds_bgppeers, poolLocals, ds_pools0, peerLocals, globalsVars,
      charmVars, otherVars>>

\* lines 275-277: the AS number and the cluster id of the unit
NodeResolve ==
    /\ pc = "idle"
    /\ as_number' = GetUnitAsNumber(unit, config)
    /\ route_reflector_cluster_id' = GetRouteReflectorClusterId(unit, config)
    /\ pc' = "get"
    /\ UNCHANGED <<config, ds_node, node, err, calls, get_result, nodeFrame>>

\* line 280: node = self._calicoctl_get("node", node_name), and the except
\* clause of lines 285-287
NodeGet ==
    /\ pc = "get"
    /\ calls' = Append(calls, GetCall("node"))
    /\ \E e \in {Result("ok", <<>>, TRUE)}
                \cup {Result("CalledProcessError", StderrNotFound, FALSE)}
                \cup CallFailures :
        /\ e.type = "ok" => ds_node # {}
        /\ e.stderr = StderrNotFound => ds_node = {}
        /\ get_result' = e
        /\ IF e.type = "ok"
           THEN /\ node' = CHOOSE r \in ds_node : TRUE
                /\ pc' = "apply"
                /\ UNCHANGED err
           ELSE /\ err' = Reraised(e.type)
                /\ pc' = IF err' = "none" THEN "apply" ELSE "failed"
                /\ UNCHANGED node
    /\ UNCHANGED <<config, ds_node, as_number, route_reflector_cluster_id, nodeFrame>>

\* lines 281-287: the two fields are written and the node is applied; a node
\* without the bgp mapping gives KeyError, which the reconciler does not catch
NodeApply ==
    /\ pc = "apply"
    /\ IF "bgp" \notin DOMAIN node.spec
       THEN /\ pc' = "failed"
            /\ err' = "KeyError"
            /\ UNCHANGED <<node, calls, ds_node>>
       ELSE /\ node' = PatchNode(node, as_number, route_reflector_cluster_id)
            /\ calls' = Append(calls, [verb |-> "apply", kind |-> "node",
                                       name |-> node'.name, skip |-> FALSE,
                                       body |-> node', before |-> node])
            /\ \/ /\ ds_node' = {node'}
                  /\ pc' = "done"
                  /\ UNCHANGED err
               \/ \E e \in CalicoctlErrors :
                    /\ err' = Reraised(e)
                    /\ pc' = IF err' = "none" THEN "done" ELSE "failed"
                    /\ UNCHANGED ds_node
    /\ UNCHANGED <<config, get_result, as_number, route_reflector_cluster_id,
                   nodeFrame>>

\* The hook ends, with or without an exception.
NodeExit ==
    /\ pc \in {"done", "failed"}
    /\ pc' = "exited"
    /\ err' = "none"
    /\ calls' = <<>>
    /\ get_result' = NoResult
    /\ node' = NoResource
    /\ as_number' = None
    /\ route_reflector_cluster_id' = NullText
    /\ UNCHANGED <<config, ds_node, nodeFrame>>

\* The next hook runs the reconciler again: a deferred event with the same
\* configuration, or config-changed after the operator set one option.
NodeRerun ==
    /\ pc = "exited"
    /\ \/ UNCHANGED config
       \/ \E ua \in UnitAsNumbers :
            config' = [config EXCEPT !["unit-as-numbers"] = ua]
       \/ \E sa \in NodeSubnetAsNumbers :
            config' = [config EXCEPT !["subnet-as-numbers"] = sa]
       \/ \E ids \in ClusterIds :
            config' = [config EXCEPT !["route-reflector-cluster-ids"] = ids]
    /\ pc' = "idle"
    /\ UNCHANGED <<ds_node, node, err, calls, get_result, as_number,
                   route_reflector_cluster_id, nodeFrame>>

NodeNext == NodeResolve \/ NodeGet \/ NodeApply \/ NodeExit \/ NodeRerun

NodeSpec == NodeInit /\ [][NodeNext]_vars

(***************************************************************************)
(* Claims about the node, checked under NodeSpec.                          *)
(***************************************************************************)
NodeApplyIdx == {i \in 1..Len(calls) : calls[i].verb = "apply"}

\* C14: if the get of the Node of the host fails for any reason, not-found
\* included, _configure_node raises that error, creates no Node and issues no
\* apply.
C14_NodeGetFailureRaises ==
    get_result.type \in CalicoctlErrors =>
        /\ pc = "failed"
        /\ err = get_result.type
        /\ NodeApplyIdx = {}
        /\ node = NoResource
        /\ get_result.stderr = StderrNotFound => ds_node = {}

\* the Node does not exist: the get failed with not-found and nothing was made
C14_Witness ==
    /\ get_result.type = "CalledProcessError"
    /\ get_result.stderr = StderrNotFound
    /\ pc = "failed"
    /\ err = "CalledProcessError"
    /\ ds_node = {}
    /\ Len(calls) = 1

\* no unit entry and no subnet of subnet-as-numbers holds the bind address
NoAsOverride ==
    /\ GetUnitId(unit.name) \notin DOMAIN config["unit-as-numbers"]
    /\ \A i \in 1..Len(config["subnet-as-numbers"]) :
           ~InNetwork(ip_address(unit.bind_address),
                      ip_network(config["subnet-as-numbers"][i].key))

\* C15: on success exactly one Node is applied; it is the fetched Node except
\* that spec.bgp.asNumber is the AS number resolved for the unit (null when
\* no override matches) and spec.bgp.routeReflectorClusterID is the
\* route-reflector-cluster-ids entry of the unit id (null when absent).
C15_NodePatchedInPlace ==
    pc = "done" =>
        /\ Cardinality(NodeApplyIdx) = 1
        /\ \A i \in NodeApplyIdx :
            LET applied == calls[i].body
                fetched == calls[i].before
            IN  /\ applied.kind = fetched.kind
                /\ applied.name = fetched.name
                /\ DOMAIN applied.spec = DOMAIN fetched.spec
                /\ \A f \in DOMAIN fetched.spec \ {"bgp"} :
                       applied.spec[f] = fetched.spec[f]
                /\ DOMAIN applied.spec["bgp"] =
                       DOMAIN fetched.spec["bgp"]
                           \cup {"asNumber", "routeReflectorClusterID"}
                /\ \A g \in DOMAIN fetched.spec["bgp"]
                               \ {"asNumber", "routeReflectorClusterID"} :
                       applied.spec["bgp"][g] = fetched.spec["bgp"][g]
                /\ applied.spec["bgp"]["asNumber"] = GetUnitAsNumber(unit, config)
                /\ NoAsOverride => applied.spec["bgp"]["asNumber"] = None
                /\ applied.spec["bgp"]["routeReflectorClusterID"] =
                       IF GetUnitId(unit.name)
                              \in DOMAIN config["route-reflector-cluster-ids"]
                       THEN config["route-reflector-cluster-ids"][GetUnitId(unit.name)]
                       ELSE NullText
                /\ ds_node = {applied}

\* a node with an address was patched with an AS number and a cluster id
C15_Witness ==
    /\ pc = "done"
    /\ \E r \in ds_node :
           /\ r.spec["bgp"]["ipv4Address"] = 167772165
           /\ r.spec["bgp"]["asNumber"] = 64512
           /\ r.spec["bgp"]["routeReflectorClusterID"] = "224.0.0.1"
           /\ r.spec["orchRefs"] = "k8s"

(***************************************************************************)
(* The handlers: install, upgrade-charm, config-changed, update-status and *)
(* the sync-resources action.  A reconciler is one step here: it returns   *)
(* or raises one of the exceptions the handlers name.                      *)
(***************************************************************************)
Reconcilers_swapped == <<"pool", "globals", "node", "peers", "vxlan">>

\* _configure_calico, lines 109-113: the reconcilers in the order called
Reconcilers == <<"pool", "node", "globals", "peers", "vxlan">>

\* the exceptions a reconciler may raise: calicoctl's, and yaml.YAMLError of
\* a configuration value or of calicoctl's output; _disable_vxlan_tx_checksumming
\* runs ethtool only when the configuration asks for it
ReconcilerErrors(r, cfg) ==
    CASE r = "vxlan" ->
             IF cfg["disable-vxlan-tx-checksumming"] /\ cfg["vxlan"] # "Never"
             THEN {"CalledProcessError"} ELSE {}
      [] r = "pool" ->
             IF cfg["manage-pools"] THEN CalicoctlErrors \cup {"YAMLError"} ELSE {}
      [] OTHER -> CalicoctlErrors \cup {"YAMLError"}

\* the status a reconciler sets when it starts
ReconcilerStatus(r, st, cfg) ==
    CASE r = "pool" /\ cfg["manage-pools"] ->
             Status("maintenance", "Configuring Calico IP pool.")
      [] r = "node" -> Status("maintenance", "Configuring Calico node.")
      [] r = "globals" -> Status("maintenance", "Configuring BGP globals.")
      [] r = "peers" -> Status("maintenance", "Configuring BGP peers.")
      [] OTHER -> st

GetKubeconfigStatus_always(hashes) == TRUE

\* _get_kubeconfig_status: some related cni unit has published a kubeconfig-hash
GetKubeconfigStatus(hashes) == \E h \in hashes : h # ""

IsRpfConfigMismatched_anyOption(e, cfg) == e.rp_filter = 2

\* _is_rpf_config_mismatched
IsRpfConfigMismatched(e, cfg) == e.rp_filter = 2 /\ ~cfg["ignore-loose-rpf"]

InvalidConfig ==
    Status("blocked", "Invalid Config provided. Please check juju debug-log for more info.")

\* _set_status
SetStatus(st, sto, e, cfg) ==
    IF IsRpfConfigMismatched(e, cfg)
    THEN Status("blocked", "ignore-loose-rpf config is in conflict with rp_filter value")
    ELSE IF sto.deployed /\ sto.calico_configured
    THEN Status("active", "Ready")
    ELSE st

InstallEvents == {"install", "upgrade"}

\* the status an except clause of a handler sets
ErrorStatus(ev, e) ==
    CASE e = "YAMLError" -> InvalidConfig
      [] e = "ManifestClientError" /\ ev \in InstallEvents ->
             Status("waiting", "Installing Calico manifests")
      [] e = "ManifestClientError" ->
             Status("waiting", "Waiting for Kubernetes API.")
      [] e \in CalicoctlErrors /\ ev \in InstallEvents ->
             Status("waiting", "Configuring Calico")
      [] OTHER -> Status("waiting", "Configuring Calico.")

DefersOn_all(e) == TRUE

\* the except clauses that call event.defer()
DefersOn(e) == e \in CalicoctlErrors \cup {"ManifestClientError"}

FlagAfterError_deployed(sto, e) == [sto EXCEPT !.deployed = TRUE]

\* _configure_calico, lines 115-117: only yaml.YAMLError clears the flag
FlagAfterError(sto, e) ==
    IF e = "YAMLError" THEN [sto EXCEPT !.calico_configured = FALSE] ELSE sto

Events ==
    InstallEvents \cup {"config-changed", "update-status", "sync-resources",
                        "etcd-tls-available"}

KubeconfigHashes == {{}, {""}, {"", "abcd1234"}}

Envs == [kubeconfig_hashes : KubeconfigHashes, etcd_ready : BOOLEAN, rp_filter : {0, 2}]

CharmConfig(rpf, off, vxlan, manage, ipip) ==
    [k \in {"ignore-loose-rpf", "disable-vxlan-tx-checksumming", "vxlan",
            "manage-pools", "ipip"} |->
        CASE k = "ignore-loose-rpf" -> rpf
          [] k = "disable-vxlan-tx-checksumming" -> off
          [] k = "vxlan" -> vxlan
          [] k = "manage-pools" -> manage
          [] k = "ipip" -> ipip]

CharmConfigs ==
    {CharmConfig(rpf, off, vxlan, manage, ipip) :
        rpf \in BOOLEAN, off \in BOOLEAN, vxlan \in {"Never", "Always"},
        manage \in BOOLEAN, ipip \in {"Never", "Always"}}

CharmInit ==
    /\ config \in CharmConfigs
    /\ unit = [name |-> <<"c", "a", "l", "i", "c", "o", "/", "0">>,
               bind_address |-> "10.0.0.5", hostname |-> "juju-0"]
    /\ ds_pools = {}
    /\ ds_bgppeers = {}
    /\ pc = "idle"
    /\ err = "none"
    /\ calls = <<>>
    /\ pools = <<>>
    /\ pool_names_to_delete = <<>>
    /\ pool_applies = <<>>
    /\ ds_pools0 = {}
    /\ as_number = None
    /\ named_peers = <<>>
    /\ peer_applies = <<>>
    /\ existing_peers = {}
    /\ peers_to_delete = {}
    /\ ds_bgpconfig = {}
    /\ ds_node = {}
    /\ get_result = NoResult
    /\ bgp_config = NoResource
    /\ node = NoResource
    /\ route_reflector_cluster_id = NullText
    /\ stored = StoredDefault
    /\ status = Status("maintenance", "")
    /\ event = "none"
    /\ deferred = FALSE
    /\ ran = <<>>
    /\ env \in Envs
    /\ last_pass = "none"
    /\ prev_pass = NoPass
    /\ flags = {}
    /\ changed = {}
    /\ procs = <<>>

charmFrame ==
    <<unit, ds_pools, ds_bgppeers, calls, poolLocals, ds_pools0, as_number,
      peerLocals, globalsVars, nodeVars, get_result, otherVars>>

\* Between hooks the operator changes the configuration, a relation changes
\* or the host's rp_filter is set.
EnvChange ==
    /\ pc = "idle"
    /\ \/ /\ env' \in Envs
          /\ env' # env
          /\ UNCHANGED config
       \/ /\ config' \in CharmConfigs
          /\ config' # config
          /\ UNCHANGED env
    /\ UNCHANGED <<pc, err, stored, status, event, deferred, ran, last_pass,
                   charmFrame>>

\* The framework emits an event: a new one, or one deferred earlier.
Dispatch ==
    /\ pc = "idle"
    /\ event' \in Events
    /\ pc' = "handler"
    /\ err' = "none"
    /\ deferred' = FALSE
    /\ ran' = <<>>
    /\ UNCHANGED <<config, stored, status, env, last_pass, charmFrame>>

UpgradeResets_nothing(sto) == sto

\* _on_upgrade, lines 121-122
UpgradeResets(sto) == [sto EXCEPT !.binaries_installed = FALSE, !.deployed = FALSE]

\* _on_install / _on_upgrade and _install_or_upgrade down to line 154
InstallOrUpgrade ==
    /\ pc = "handler"
    /\ event \in InstallEvents
    /\ \E installed \in BOOLEAN :
        LET sto0 == IF event = "upgrade" THEN UpgradeResets(stored) ELSE stored
            st0  == IF event = "upgrade"
                    THEN Status("maintenance", "Removing Reactive resources.")
                    ELSE status
            ran0 == IF event = "upgrade" THEN <<"remove_reactive">> ELSE <<>>
            sto1 == IF sto0.binaries_installed THEN sto0
                    ELSE [sto0 EXCEPT !.binaries_installed = installed]
            st1  == IF sto0.binaries_installed THEN st0
                    ELSE IF installed
                    THEN Status("maintenance", "Unpacking Calico resource.")
                    ELSE Status("blocked", "Failed to install calicoctl")
            ran1 == IF sto0.binaries_installed THEN ran0
                    ELSE Append(ran0, "install_binaries")
        IN  /\ sto0.binaries_installed => installed
            /\ stored' = sto1
            /\ ran' = ran1
            /\ IF ~GetKubeconfigStatus(env.kubeconfig_hashes)
               THEN /\ status' = Status("waiting", "Waiting for Kubernetes config.")
                    /\ deferred' = TRUE
                    /\ pc' = "idle"
               ELSE IF ~env.etcd_ready
               THEN /\ status' = Status("blocked", "Waiting for etcd.")
                    /\ deferred' = TRUE
                    /\ pc' = "idle"
               ELSE /\ status' = st1
                    /\ UNCHANGED deferred
                    /\ pc' = IF sto1.deployed THEN "idle" ELSE "cni"
    /\ UNCHANGED <<config, err, event, env, last_pass, charmFrame>>

\* lines 156-157: save_client_credentials and _configure_cni
ConfigureCni ==
    /\ pc = "cni"
    /\ ran' = Append(ran, "cni")
    /\ status' = Status("maintenance", "Propagating CNI config.")
    /\ pc' = "manifests"
    /\ UNCHANGED <<config, err, stored, event, deferred, env, last_pass, charmFrame>>

\* the handler ends in one of its except clauses
Caught(e, sto) ==
    /\ err' = e
    /\ stored' = sto
    /\ status' = ErrorStatus(event, e)
    /\ deferred' = DefersOn(e)
    /\ pc' = "idle"

\* self.calico_manifests.apply_manifests(): line 158 of _install_or_upgrade,
\* lines 88-89 of _on_config_changed (followed by _set_status)
ApplyManifests ==
    /\ pc = "manifests"
    /\ ran' = Append(ran, "manifests")
    /\ \/ /\ event \in InstallEvents
          /\ pc' = Reconcilers[1]
          /\ UNCHANGED <<err, stored, status, deferred>>
       \/ /\ event = "config-changed"
          /\ status' = SetStatus(status, stored, env, config)
          /\ pc' = "idle"
          /\ UNCHANGED <<err, stored, deferred>>
       \/ Caught("ManifestClientError", stored)
    /\ UNCHANGED <<config, event, env, last_pass, charmFrame>>

Reconfigures_always(sto) == TRUE

\* line 85: if self.stored.deployed
Reconfigures(sto) == sto.deployed

\* _on_config_changed, lines 84-86
ConfigChanged ==
    /\ pc = "handler"
    /\ event = "config-changed"
    /\ status' = Status("maintenance", "Reconfiguring Calico.")
    /\ pc' = IF Reconfigures(stored) THEN Reconcilers[1] ELSE "idle"
    /\ UNCHANGED <<config, err, stored, event, deferred, ran, env, last_pass,
                   charmFrame>>

\* _configure_calico: one reconciler returns or raises; after the last one
\* calico_configured is set, and _install_or_upgrade goes on with lines 160-161
Reconcile ==
    /\ \E i \in 1..Len(Reconcilers) :
        /\ pc = Reconcilers[i]
        /\ ran' = Append(ran, Reconcilers[i])
        /\ \/ /\ i < Len(Reconcilers)
              /\ pc' = Reconcilers[i + 1]
              /\ status' = ReconcilerStatus(Reconcilers[i], status, config)
              /\ UNCHANGED <<err, stored, deferred, last_pass>>
           \/ /\ i = Len(Reconcilers)
              /\ last_pass' = "ok"
              /\ IF event \in InstallEvents
                 THEN /\ stored' = [stored EXCEPT !.calico_configured = TRUE,
                                                  !.deployed = TRUE]
                      /\ status' = SetStatus(ReconcilerStatus(Reconcilers[i], status, config),
                                              stored', env, config)
                      /\ pc' = "idle"
                 ELSE /\ stored' = [stored EXCEPT !.calico_configured = TRUE]
                      /\ status' = ReconcilerStatus(Reconcilers[i], status, config)
                      /\ pc' = "manifests"
              /\ UNCHANGED <<err, deferred>>
           \/ \E e \in ReconcilerErrors(Reconcilers[i], config) :
                /\ Caught(e, FlagAfterError(stored, e))
                /\ last_pass' = "failed"
    /\ UNCHANGED <<config, event, env, charmFrame>>

\* _on_update_status
UpdateStatus ==
    /\ pc = "handler"
    /\ event = "update-status"
    /\ status' = SetStatus(status, stored, env, config)
    /\ pc' = "idle"
    /\ UNCHANGED <<config, err, stored, event, deferred, ran, env, last_pass,
                   charmFrame>>

\* _sync_resources
SyncResources ==
    /\ pc = "handler"
    /\ event = "sync-resources"
    /\ ran' = Append(ran, "apply_missing_resources")
    /\ \/ /\ stored' = [stored EXCEPT !.deployed = TRUE]
          /\ UNCHANGED err
       \/ /\ err' = "ManifestClientError"
          /\ UNCHANGED stored
    /\ pc' = "idle"
    /\ UNCHANGED <<config, status, event, deferred, env, last_pass, charmFrame>>

UpdatesSecrets_always(sto) == TRUE

\* line 76: if self.stored.deployed
UpdatesSecrets(sto) == sto.deployed

\* _on_etcd_changed, the handler of the tls_available event of the etcd
\* relation
EtcdChanged ==
    /\ pc = "handler"
    /\ event = "etcd-tls-available"
    /\ status' = Status("maintenance", "Updating etcd configuration.")
    /\ IF UpdatesSecrets(stored)
       THEN /\ ran' = <<"save_client_credentials", "manifests">>
            /\ \/ UNCHANGED <<err, deferred>>
               \/ /\ err' = "ManifestClientError"
                  /\ deferred' = TRUE
       ELSE /\ ran' = <<"save_client_credentials">>
            /\ UNCHANGED <<err, deferred>>
    /\ pc' = "idle"
    /\ UNCHANGED <<config, stored, event, env, last_pass, charmFrame>>

CharmNext ==
    \/ EnvChange \/ Dispatch \/ InstallOrUpgrade \/ ConfigureCni \/ ApplyManifests
    \/ ConfigChanged \/ Reconcile \/ UpdateStatus \/ SyncResources \/ EtcdChanged

CharmSpec == CharmInit /\ [][CharmNext]_vars

(***************************************************************************)
(* Claims about the handlers, checked under CharmSpec.                     *)
(***************************************************************************)
\* the reconcilers among the steps the handler has run
ReconcilersRan == SelectSeq(ran, LAMBDA x : x \in {"pool", "node", "globals", "peers", "vxlan"})

FixedOrder == <<"pool", "node", "globals", "peers", "vxlan">>

\* C16: _configure_calico runs pool, node, BGP globals, BGP peers and the
\* VXLAN checksum step in this order; a failure of one of them ends the pass,
\* no later reconciler runs; calico_configured becomes true only when all of
\* them returned without error.
C16_FixedOrderAbortOnFailure ==
    /\ [](/\ Len(ReconcilersRan) <= Len(FixedOrder)
          /\ ReconcilersRan = SubSeq(FixedOrder, 1, Len(ReconcilersRan))
          /\ err # "none" => pc = "idle")
    /\ [][/\ err # "none" => (ran' = ran \/ ran' = <<>>)
          /\ (~stored.calico_configured /\ stored'.calico_configured) =>
                 (ReconcilersRan' = FixedOrder /\ err' = "none" /\ last_pass' = "ok")]_vars

\* a pass failed in the BGP globals after pool and node had run
C16_Witness ==
    /\ ReconcilersRan = <<"pool", "node", "globals">>
    /\ err = "TimeoutExpired"
    /\ pc = "idle"
    /\ ~stored.calico_configured

\* C17: after a reconciliation pass that fails, whatever the failure kind
\* and whatever the flag held before the pass, calico_configured is unset.
C17_FlagUnsetAfterFailure ==
    last_pass = "failed" => ~stored.calico_configured

\* C18: the status becomes Active 'Ready' only when deployed and
\* calico_configured are both true and the rp_filter check reports no
\* mismatch; and the unit is never Active while its most recent
\* reconciliation pass has failed.
C18_ActiveOnlyWhenReady ==
    /\ [][(status'.name = "active" /\ status # status') =>
              /\ status' = [name |-> "active", message |-> "Ready"]
              /\ stored'.deployed
              /\ stored'.calico_configured
              /\ ~(env'.rp_filter = 2 /\ ~config'["ignore-loose-rpf"])]_vars
    /\ [](status.name = "active" => last_pass # "failed")

Handlers == {"install", "upgrade", "config-changed"}

\* C19: in the config-changed handler and in the install/upgrade handler a
\* command error or timeout of the reconciliation gives a Waiting status and
\* a deferred event, a manifest client error gives a Waiting status and a
\* deferred event, a YAML error gives Blocked 'Invalid Config provided...'
\* and no deferred event.
C19_ErrorClasses ==
    (pc = "idle" /\ event \in Handlers) =>
        /\ err \in {"CalledProcessError", "TimeoutExpired", "ManifestClientError"} =>
               /\ status.name = "waiting"
               /\ deferred
        /\ err = "YAMLError" =>
               /\ status = [name |-> "blocked",
                            message |-> "Invalid Config provided. Please check juju debug-log for more info."]
               /\ ~deferred

\* config-changed ended with a YAML error of a reconciler: Blocked, not deferred
C19_Witness ==
    /\ pc = "idle"
    /\ event = "config-changed"
    /\ err = "YAMLError"
    /\ status.name = "blocked"
    /\ ~deferred
    /\ ran # <<>>

GatedSteps == {"cni", "manifests", "pool", "node", "globals", "peers", "vxlan"}

\* C20: when no related cni unit has published a kubeconfig-hash (status
\* Waiting) or etcd is not ready (status Blocked 'Waiting for etcd.'),
\* _install_or_upgrade runs no CNI configuration, no manifest apply and no
\* reconciler, does not set deployed (false after upgrade-charm, as it was
\* after install) and defers the event.
C20_GatesBeforeDeploy ==
    [][(/\ pc = "handler"
        /\ event \in {"install", "upgrade"}
        /\ (\A h \in env.kubeconfig_hashes : h = "") \/ ~env.etcd_ready) =>
           /\ pc' = "idle"
           /\ deferred'
           /\ \A i \in 1..Len(ran') : ran'[i] \notin GatedSteps
           /\ stored'.deployed = (stored.deployed /\ event = "install")
           /\ stored'.calico_configured = stored.calico_configured
           /\ status' = IF \A h \in env.kubeconfig_hashes : h = ""
                        THEN [name |-> "waiting",
                              message |-> "Waiting for Kubernetes config."]
                        ELSE [name |-> "blocked", message |-> "Waiting for etcd."]]_vars

\* upgrade-charm with a kubeconfig but without etcd: Blocked, deferred, not
\* deployed
C20_Witness ==
    /\ pc = "idle"
    /\ event = "upgrade"
    /\ deferred
    /\ status = [name |-> "blocked", message |-> "Waiting for etcd."]
    /\ ~stored.deployed
    /\ ~env.etcd_ready
    /\ \E h \in env.kubeconfig_hashes : h # ""

DeploySteps == <<"cni", "manifests", "pool", "node", "globals", "peers", "vxlan">>

\* the steps of the try block of _install_or_upgrade the handler has run
DeployStepsRan == SelectSeq(ran, LAMBDA x : x \in {"cni", "manifests", "pool", "node", "globals", "peers", "vxlan"})

\* C21: in _install_or_upgrade deployed becomes true only in a pass in which
\* saving the etcd credentials, the CNI configuration, the manifest apply
\* and the full reconciliation all ended without error; if one of them
\* fails, deployed is still false after the handler.
C21_DeployedOnlyAfterFullPass ==
    /\ []((event \in {"install", "upgrade"} /\ err # "none") => ~stored.deployed)
    /\ [][(event' \in {"install", "upgrade"} /\ ~stored.deployed /\ stored'.deployed) =>
              /\ DeployStepsRan' = DeploySteps
              /\ err' = "none"
              /\ stored'.calico_configured]_vars

\* install failed in the node reconciler after the manifests were applied:
\* not deployed
C21_Witness ==
    /\ pc = "idle"
    /\ event = "install"
    /\ err = "CalledProcessError"
    /\ DeployStepsRan = <<"cni", "manifests", "pool", "node">>
    /\ ~stored.deployed

\* how often a step is among the steps the handler has run
TimesRan(x) == Cardinality({i \in 1..Len(ran) : ran[i] = x})

\* C22: config-changed while deployed is false runs no reconciler, applies
\* no manifest and changes no stored flag; while deployed is true it runs
\* the reconciliation exactly once.
C22_ConfigChangedNeedsDeployed ==
    /\ [][(pc = "handler" /\ event = "config-changed" /\ ~stored.deployed) =>
              (pc' = "idle" /\ ran' = <<>> /\ stored' = stored /\ err' = "none")]_vars
    /\ [][(pc = "handler" /\ event = "config-changed" /\ stored.deployed) =>
              pc' = "pool"]_vars
    /\ [](event = "config-changed" =>
              /\ \A x \in {"manifests", "pool", "node", "globals", "peers", "vxlan"} :
                     TimesRan(x) <= 1
              /\ (pc = "idle" /\ stored.deployed /\ err = "none") =>
                     ran = <<"pool", "node", "globals", "peers", "vxlan", "manifests">>
              /\ (pc = "idle" /\ ~stored.deployed) => ran = <<>>)

\* a config-changed handler ended without having done anything, the unit not
\* being deployed, and one ended after a full reconciliation
C22_Witness ==
    /\ pc = "idle"
    /\ event = "config-changed"
    /\ ~stored.deployed
    /\ stored.binaries_installed
    /\ ran = <<>>
    /\ status = [name |-> "maintenance", message |-> "Reconfiguring Calico."]

(***************************************************************************)
(* Claims about the deletes and about the subnet matcher.                  *)
(***************************************************************************)
\* C24: every delete a reconciler issues, of a stale pool or of a stale
\* peer, is a delete with --skip-not-exists.
C24_DeletesSkipNotExists ==
    \A i \in 1..Len(calls) : calls[i].verb = "delete" => calls[i].skip

\* the keys of subnet-as-numbers
MatcherKeys == Keys(config["subnet-as-numbers"])

\* what the matcher returns for the bind address of the unit and these keys
MatcherResult == FilterLocalSubnets(unit.bind_address, MatcherKeys)

\* the positions of the keys whose subnet holds the bind address
MatchingKeys ==
    {i \in 1..Len(MatcherKeys) :
        LET net == ip_network(MatcherKeys[i])
            addr == ip_address(unit.bind_address)
            host == 2 ^ ((IF net.version = 4 THEN 32 ELSE 16) - net.prefixlen)
        IN  /\ addr.version = net.version
            /\ addr.ip \div host = net.network_address \div host}

\* the n-th of them, in the order of the map
NthMatchingKey(n) ==
    CHOOSE i \in MatchingKeys : Cardinality({j \in MatchingKeys : j <= i}) = n

\* the matcher returns exactly the configured subnets that hold the address
ReturnsExactlyMatching ==
    /\ Len(MatcherResult) = Cardinality(MatchingKeys)
    /\ \A i \in MatchingKeys :
           \E n \in 1..Len(MatcherResult) : MatcherResult[n] = ip_network(MatcherKeys[i])

C26_MatcherEmptyOnBadInput ==
    (/\ pc \in {"done", "failed"}
     /\ GetUnitId(unit.name) \notin DOMAIN config["unit-as-numbers"]
     /\ ~IsIpAddress(unit.bind_address) \/ MatcherKeys = <<>>) =>
        /\ ~FilterLocalSubnetsRaises(unit.bind_address, MatcherKeys)
        /\ MatcherResult = <<>>
        /\ err = "none"
        /\ pc = "done"

(***************************************************************************)
(* A reconciler run again: the four reconcilers, each with its own options *)
(* and its own part of the datastore, re-run by the next hook with the     *)
(* configuration unchanged and nobody else writing.                         *)
(***************************************************************************)
\* the reconciler whose options the configuration holds
Reconciler ==
    CASE "cidr" \in DOMAIN config -> "pool"
      [] "global-bgp-peers" \in DOMAIN config -> "peers"
      [] "global-as-number" \in DOMAIN config -> "globals"
      [] "route-reflector-cluster-ids" \in DOMAIN config -> "node"

\* what calicoctl holds: pools, peers, the default BGPConfiguration, the node
Datastore == <<ds_pools, ds_bgppeers, ds_bgpconfig, ds_node>>

\* the resources a pass applied, in the order of the calls
Applies(cs) ==
    LET applies == SelectSeq(cs, LAMBDA c : c.verb = "apply")
    IN  [i \in 1..Len(applies) |->
            [kind |-> applies[i].kind, name |-> applies[i].name,
             body |-> applies[i].body]]

RerunInit == PoolInit \/ PeersInit \/ GlobalsInit \/ NodeInit

RerunPool ==
    /\ Reconciler = "pool"
    /\ PoolSkip \/ PoolGet \/ PoolDelete \/ PoolApply

RerunPeers ==
    /\ Reconciler = "peers"
    /\ PeersBuild \/ PeerApply \/ PeerGet \/ PeerDelete

RerunGlobals ==
    /\ Reconciler = "globals"
    /\ GlobalsGet \/ GlobalsApply

RerunNode ==
    /\ Reconciler = "node"
    /\ NodeResolve \/ NodeGet \/ NodeApply

\* The hook ends, with or without an exception: the locals of the reconciler
\* are gone; what a pass without error applied and left is kept for the
\* comparison with the next pass.
RerunExit ==
    /\ pc \in {"done", "failed"}
    /\ prev_pass' = IF pc = "done"
                    THEN [ended |-> "done", applies |-> Applies(calls),
                          datastore |-> Datastore]
                    ELSE [NoPass EXCEPT !.ended = "failed"]
    /\ pc' = "exited"
    /\ err' = "none"
    /\ calls' = <<>>
    /\ pools' = <<>>
    /\ pool_names_to_delete' = <<>>
    /\ pool_applies' = <<>>
    /\ ds_pools0' = ds_pools
    /\ as_number' = None
    /\ named_peers' = <<>>
    /\ peer_applies' = <<>>
    /\ existing_peers' = {}
    /\ peers_to_delete' = {}
    /\ get_result' = NoResult
    /\ bgp_config' = NoResource
    /\ node' = NoResource
    /\ route_reflector_cluster_id' = NullText
    /\ UNCHANGED <<config, unit, ds_pools, ds_bgppeers, ds_bgpconfig, ds_node,
                   charmVars, procs, reactiveVars>>

\* The next hook (a deferred event, update-status) runs the reconciler again
\* with the same configuration.
RerunAgain ==
    /\ pc = "exited"
    /\ pc' = "idle"
    /\ UNCHANGED <<config, unit, ds_pools, ds_bgppeers, err, calls, poolLocals,
                   ds_pools0, as_number, peerLocals>>
    /\ UNCHANGED laterVars

RerunNext ==
    RerunPool \/ RerunPeers \/ RerunGlobals \/ RerunNode \/ RerunExit \/ RerunAgain

RerunSpec == RerunInit /\ [][RerunNext]_vars

\* the pass runs right after a pass that ended without error
SecondRun == prev_pass.ended = "done" /\ pc # "exited"

\* the exception is the one of a calicoctl command that failed or timed out
\* (TypeError: the except clause of the globals get, on a timeout)
CommandFailed == err \in CalicoctlErrors \cup {"TypeError"}

\* C23: a reconciler (pool, node, BGP globals, BGP peers) run a second time
\* right after a successful run, with the configuration unchanged and no
\* other writer, issues no delete, issues the applies of the first run,
\* raises no error of its own and leaves the datastore as the first run did.
C23_SecondRunIdempotent ==
    SecondRun =>
        /\ \A i \in 1..Len(calls) : calls[i].verb # "delete"
        /\ Len(Applies(calls)) <= Len(prev_pass.applies)
        /\ Applies(calls) = SubSeq(prev_pass.applies, 1, Len(Applies(calls)))
        /\ pc = "failed" => CommandFailed
        /\ pc = "done" =>
               /\ Applies(calls) = prev_pass.applies
               /\ Datastore = prev_pass.datastore

\* a second run of the peers reconciler has ended; the first applied a peer
C23_Witness ==
    /\ SecondRun
    /\ pc = "done"
    /\ Reconciler = "peers"
    /\ Len(prev_pass.applies) >= 1
    /\ Applies(calls) = prev_pass.applies

\* positions of the calls of the pass, by verb
CallIdx(verb) == {i \in 1..Len(calls) : calls[i].verb = verb}

\* the names of the desired peers of the unit, from the configuration
DesiredPeerNames ==
    {ExpectedPeerName(unit.name, p.address, p.as_number) :
        p \in Range(DesiredPeers(unit, config))}

\* the names of the unit's peers in the datastore
OwnedPeerNames == {p.name : p \in {q \in ds_bgppeers : HasUnitPrefix(q.name)}}

\* C29: in a peer reconciliation pass every apply of a desired peer precedes
\* the get of the existing peers and every delete; a pass that fails at any
\* step has deleted no peer of the desired set; a later pass with the same
\* configuration that ends without error leaves the unit's peers exactly
\* the desired set.
C29_PartialPassCorrected ==
    (Reconciler = "peers" /\ pc \notin {"idle", "exited"}) =>
        /\ \A i \in CallIdx("apply"), j \in CallIdx("get") : i < j
        /\ \A j \in CallIdx("get"), k \in CallIdx("delete") : j < k
        /\ \A i \in CallIdx("apply") : calls[i].name \in DesiredPeerNames
        /\ \A k \in CallIdx("delete") : calls[k].name \notin DesiredPeerNames
        /\ (pc = "done" /\ prev_pass.ended = "failed") =>
               OwnedPeerNames = DesiredPeerNames

\* the pass after a failed pass has ended without error: it applied a
\* desired peer and deleted a stale one
C29_Witness ==
    /\ Reconciler = "peers"
    /\ prev_pass.ended = "failed"
    /\ pc = "done"
    /\ CallIdx("apply") # {}
    /\ CallIdx("delete") # {}
    /\ OwnedPeerNames = DesiredPeerNames

(***************************************************************************)
(* Several units on one datastore.  Each unit runs _configure_calico once: *)
(* pools, node, BGP globals, BGP peers, one calicoctl call per step; the   *)
(* steps of the units interleave in any order.  procs[u] holds the locals  *)
(* of the pass of unit u.                                                   *)
(***************************************************************************)
\* two units of the application calico: calico/1 and calico/10
Units == {1, 2}

UnitOf(u) ==
    IF u = 1
    THEN [name |-> <<"c", "a", "l", "i", "c", "o", "/", "1">>,
          bind_address |-> "10.0.0.5", hostname |-> "juju-1"]
    ELSE [name |-> <<"c", "a", "l", "i", "c", "o", "/", "1", "0">>,
          bind_address |-> "10.1.0.5", hostname |-> "juju-10"]

\* the Node Calico made for a host
NodeOf(hostname) == [NodeWithBgp EXCEPT !.name = hostname]

\* a BGPPeer an earlier pass of a unit left: no longer desired
StalePeer(unit_name) ==
    LET address == <<"1", "0", ".", "2", "0", ".", "0", ".", "1">>
    IN  [name |-> SafeUnitName(unit_name) \o <<"-">> \o address \o <<"-">>
                      \o IntStr(65000),
         node |-> "old", peerIP |-> address, asNumber |-> 65000]

\* the locals of a pass that has not started
ProcStart ==
    [pc |-> "pool_get", err |-> "none", deleted |-> {},
     pool_names_to_delete |-> <<>>, pool_applies |-> <<>>,
     as_number |-> None, route_reflector_cluster_id |-> NullText,
     node |-> NoResource, bgp_config |-> NoResource,
     named_peers |-> <<>>, peer_applies |-> <<>>, peers_to_delete |-> {}]

\* the pass of unit u raises e and ends
Raise(u, e) == [procs EXCEPT ![u] = [@ EXCEPT !.pc = "failed", !.err = e]]

\* the options of the four reconcilers in one configuration
UnitsConfig(cidr, cluster_ips, unit_as, global_peers, unit_peers) ==
    [k \in {"cidr", "manage-pools", "ipip", "vxlan", "nat-outgoing",
            "unit-as-numbers", "subnet-as-numbers", "route-reflector-cluster-ids",
            "global-as-number", "node-to-node-mesh", "bgp-service-cluster-ips",
            "bgp-service-external-ips", "bgp-service-loadbalancer-ips",
            "global-bgp-peers", "subnet-bgp-peers", "unit-bgp-peers"} |->
        CASE k = "cidr" -> cidr
          [] k = "manage-pools" -> TRUE
          [] k = "ipip" -> "Always"
          [] k = "vxlan" -> "Never"
          [] k = "nat-outgoing" -> TRUE
          [] k = "unit-as-numbers" -> unit_as
          [] k = "subnet-as-numbers" -> <<[key |-> "10.0.0.0/8", value |-> 64513]>>
          [] k = "route-reflector-cluster-ids" -> (1 :> "224.0.0.1")
          [] k = "global-as-number" -> 64512
          [] k = "node-to-node-mesh" -> TRUE
          [] k = "bgp-service-cluster-ips" -> cluster_ips
          [] k = "bgp-service-external-ips" -> Cidr10
          [] k = "bgp-service-loadbalancer-ips" -> <<>>
          [] k = "global-bgp-peers" -> global_peers
          [] k = "subnet-bgp-peers" -> <<[key |-> "10.1.0.0/16", value |-> <<PeerV6>>]>>
          [] k = "unit-bgp-peers" -> unit_peers]

UnitsConfigs ==
    {UnitsConfig(cidr, cluster_ips, unit_as, global_peers, unit_peers) :
        cidr \in {<<"10.0.0.0/16">>, <<"10.0.0.0/16", " 10.1.0.0/16">>,
                  <<"10.1.0.0/16", "fd00::/64">>},
        cluster_ips \in {<<>>, Cidr10},
        unit_as \in {<<>>, (10 :> 64512)},
        global_peers \in {<<>>, <<PeerA>>},
        unit_peers \in {(1 :> <<PeerA>>), (1 :> <<PeerA>>) @@ (10 :> <<PeerA, PeerV6>>)}}

UnitsInit ==
    /\ config \in UnitsConfigs
    /\ unit = NoUnit
    /\ ds_pools \in {{}, {ExistingPool("rogue", "10.0.0.0/16"),
                          ExistingPool("ipv4", "10.1.0.0/16")}}
    /\ ds_bgppeers = {StalePeer(UnitOf(u).name) : u \in Units}
    /\ ds_bgpconfig \in {{}, {Resource("BGPConfiguration", "default", EarlierSpec)}}
    /\ ds_node = {NodeOf(UnitOf(u).hostname) : u \in Units}
    /\ procs = [u \in Units |-> ProcStart]
    /\ prev_pass = NoPass
    /\ flags = {}
    /\ changed = {}
    /\ pc = "idle"
    /\ err = "none"
    /\ calls = <<>>
    /\ pools = <<>>
    /\ pool_names_to_delete = <<>>
    /\ pool_applies = <<>>
    /\ ds_pools0 = ds_pools
    /\ as_number = None
    /\ named_peers = <<>>
    /\ peer_applies = <<>>
    /\ existing_peers = {}
    /\ peers_to_delete = {}
    /\ get_result = NoResult
    /\ bgp_config = NoResource
    /\ node = NoResource
    /\ route_reflector_cluster_id = NullText
    /\ stored = StoredDefault
    /\ status = Status("maintenance", "Configuring Calico")
    /\ event = "none"
    /\ deferred = FALSE
    /\ ran = <<>>
    /\ env = [kubeconfig |-> TRUE, etcd_ready |-> TRUE, rp_filter |-> 0]
    /\ last_pass = "none"

\* what a step of a unit's pass leaves alone
unitsFrame ==
    <<config, unit, pc, err, calls, poolLocals, ds_pools0, as_number, peerLocals,
      get_result, bgp_config, node, route_reflector_cluster_id, charmVars,
      prev_pass, reactiveVars>>

\* _configure_calico_pool, lines 416-431: the get of the pools
UnitPoolGet(u) ==
    /\ procs[u].pc = "pool_get"
    /\ IF ~ManagePools(config)
       THEN procs' = [procs EXCEPT ![u] = [@ EXCEPT !.pc = "node_get"]]
       ELSE \/ \E items \in Listings(ds_pools) :
                 procs' = [procs EXCEPT ![u] =
                              [@ EXCEPT !.pc = "pool_run",
                                        !.pool_names_to_delete =
                                            PoolNamesToDelete(items, config),
                                        !.pool_applies = PoolPairs(config)]]
            \/ \E e \in CalicoctlErrors : procs' = Raise(u, e)
    /\ UNCHANGED <<ds_pools, ds_bgppeers, ds_bgpconfig, ds_node, unitsFrame>>

\* lines 433-435: the delete of one stale pool, with --skip-not-exists
UnitPoolDelete(u) ==
    /\ procs[u].pc = "pool_run"
    /\ procs[u].pool_names_to_delete # <<>>
    /\ \/ /\ ds_pools' = Remove(ds_pools, Head(procs[u].pool_names_to_delete))
          /\ procs' = [procs EXCEPT ![u] =
                          [@ EXCEPT !.pool_names_to_delete = Tail(@)]]
       \/ \E e \in CalicoctlErrors :
            /\ procs' = Raise(u, e)
            /\ UNCHANGED ds_pools
    /\ UNCHANGED <<ds_bgppeers, ds_bgpconfig, ds_node, unitsFrame>>

\* lines 437-450: the apply of one pool
UnitPoolApply(u) ==
    /\ procs[u].pc = "pool_run"
    /\ procs[u].pool_names_to_delete = <<>>
    /\ procs[u].pool_applies # <<>>
    /\ LET pair == Head(procs[u].pool_applies)
       IN  \/ /\ ds_pools' = Upsert(ds_pools, PoolResource(pair.cidr, pair.name, config))
              /\ procs' = [procs EXCEPT ![u] =
                              [@ EXCEPT !.pool_applies = Tail(@),
                                        !.pc = IF Len(procs[u].pool_applies) = 1
                                               THEN "node_get" ELSE "pool_run"]]
           \/ \E e \in CalicoctlErrors :
                /\ procs' = Raise(u, e)
                /\ UNCHANGED ds_pools
    /\ UNCHANGED <<ds_bgppeers, ds_bgpconfig, ds_node, unitsFrame>>

\* _configure_node, lines 275-280: the AS number, the cluster id and the get
\* of the Node named by the hostname
UnitNodeGet(u) ==
    /\ procs[u].pc = "node_get"
    /\ \/ \E n \in ds_node :
            /\ n.name = UnitOf(u).hostname
            /\ procs' = [procs EXCEPT ![u] =
                   [@ EXCEPT !.pc = "node_apply",
                             !.as_number = GetUnitAsNumber(UnitOf(u), config),
                             !.route_reflector_cluster_id =
                                 GetRouteReflectorClusterId(UnitOf(u), config),
                             !.node = n]]
       \/ \E e \in CalicoctlErrors : procs' = Raise(u, Reraised(e))
    /\ UNCHANGED <<ds_pools, ds_bgppeers, ds_bgpconfig, ds_node, unitsFrame>>

\* lines 281-284: the two fields are written and the node is applied
UnitNodeApply(u) ==
    /\ procs[u].pc = "node_apply"
    /\ IF "bgp" \notin DOMAIN procs[u].node.spec
       THEN /\ procs' = Raise(u, "KeyError")
            /\ UNCHANGED ds_node
       ELSE LET patched == PatchNode(procs[u].node, procs[u].as_number,
                                     procs[u].route_reflector_cluster_id)
            IN  \/ /\ ds_node' = Upsert(ds_node, patched)
                   /\ procs' = [procs EXCEPT ![u] =
                                   [@ EXCEPT !.pc = "globals_get", !.node = NoResource]]
                \/ \E e \in CalicoctlErrors :
                     /\ procs' = Raise(u, Reraised(e))
                     /\ UNCHANGED ds_node
    /\ UNCHANGED <<ds_pools, ds_bgppeers, ds_bgpconfig, unitsFrame>>

\* _configure_bgp_globals, lines 236-249: the get of the default
\* BGPConfiguration, or the skeleton when it does not exist
UnitGlobalsGet(u) ==
    /\ procs[u].pc = "globals_get"
    /\ \/ IF ds_bgpconfig # {}
          THEN procs' = [procs EXCEPT ![u] =
                   [@ EXCEPT !.pc = "globals_apply",
                             !.bgp_config = CHOOSE r \in ds_bgpconfig : TRUE]]
          ELSE LET e == Result("CalledProcessError", StderrNotFound, FALSE)
               IN  IF NotFound(e)
                   THEN procs' = [procs EXCEPT ![u] =
                            [@ EXCEPT !.pc = "globals_apply",
                                      !.bgp_config = BgpConfigSkeleton]]
                   ELSE procs' = Raise(u, Reraised(e.type))
       \/ \E e \in CallFailures :
            procs' = Raise(u, IF e.stderr_none THEN "TypeError" ELSE Reraised(e.type))
    /\ UNCHANGED <<ds_pools, ds_bgppeers, ds_bgpconfig, ds_node, unitsFrame>>

\* lines 256-270: the fields are written and the resource is applied; then
\* _configure_bgp_peers, lines 326-343, builds named_peers
UnitGlobalsApply(u) ==
    /\ procs[u].pc = "globals_apply"
    /\ LET applied ==
               [procs[u].bgp_config EXCEPT
                    !.spec = UpdateSpec(procs[u].bgp_config.spec, config)]
           named == NamedPeers(SafeUnitName(UnitOf(u).name),
                               DesiredPeers(UnitOf(u), config))
       IN  \/ /\ ds_bgpconfig' = {applied}
              /\ procs' = [procs EXCEPT ![u] =
                              [@ EXCEPT !.pc = "peer_apply",
                                        !.bgp_config = NoResource,
                                        !.named_peers = named,
                                        !.peer_applies = named]]
           \/ \E e \in CalicoctlErrors :
                /\ procs' = Raise(u, Reraised(e))
                /\ UNCHANGED ds_bgpconfig
    /\ UNCHANGED <<ds_pools, ds_bgppeers, ds_node, unitsFrame>>

\* lines 347-360: the apply of one named peer
UnitPeerApply(u) ==
    /\ procs[u].pc = "peer_apply"
    /\ procs[u].peer_applies # <<>>
    /\ LET peer_def == PeerResource(Head(procs[u].peer_applies).name,
                                    Head(procs[u].peer_applies).peer,
                                    UnitOf(u).hostname)
       IN  \/ /\ ds_bgppeers' = Upsert(ds_bgppeers, peer_def)
              /\ procs' = [procs EXCEPT ![u] = [@ EXCEPT !.peer_applies = Tail(@)]]
           \/ \E e \in CalicoctlErrors :
                /\ procs' = Raise(u, e)
                /\ UNCHANGED ds_bgppeers
    /\ UNCHANGED <<ds_pools, ds_bgpconfig, ds_node, unitsFrame>>

\* lines 363-369: the get of the existing peers and peers_to_delete
UnitPeerGet(u) ==
    /\ procs[u].pc = "peer_apply"
    /\ procs[u].peer_applies = <<>>
    /\ \/ LET to_delete == PeersToDelete({p.name : p \in ds_bgppeers},
                                         SafeUnitName(UnitOf(u).name),
                                         procs[u].named_peers)
          IN  procs' = [procs EXCEPT ![u] =
                           [@ EXCEPT !.peers_to_delete = to_delete,
                                     !.pc = IF to_delete = {} THEN "done"
                                            ELSE "peer_delete"]]
       \/ \E e \in CalicoctlErrors : procs' = Raise(u, e)
    /\ UNCHANGED <<ds_pools, ds_bgppeers, ds_bgpconfig, ds_node, unitsFrame>>

\* lines 371-372: the delete of one peer, without --skip-not-exists
UnitPeerDelete(u) ==
    /\ procs[u].pc = "peer_delete"
    /\ \E peer \in procs[u].peers_to_delete :
        \/ /\ \E p \in ds_bgppeers : p.name = peer
           /\ ds_bgppeers' = Remove(ds_bgppeers, peer)
           /\ procs' = [procs EXCEPT ![u] =
                  [@ EXCEPT !.peers_to_delete = @ \ {peer},
                            !.deleted = @ \cup {peer},
                            !.pc = IF procs[u].peers_to_delete = {peer}
                                   THEN "done" ELSE "peer_delete"]]
        \/ \E e \in CalicoctlErrors :
             /\ procs' = Raise(u, e)
             /\ UNCHANGED ds_bgppeers
    /\ UNCHANGED <<ds_pools, ds_bgpconfig, ds_node, unitsFrame>>

UnitsNext ==
    \E u \in Units :
        \/ UnitPoolGet(u)
        \/ UnitPoolDelete(u)
        \/ UnitPoolApply(u)
        \/ UnitNodeGet(u)
        \/ UnitNodeApply(u)
        \/ UnitGlobalsGet(u)
        \/ UnitGlobalsApply(u)
        \/ UnitPeerApply(u)
        \/ UnitPeerGet(u)
        \/ UnitPeerDelete(u)

UnitsSpec == UnitsInit /\ [][UnitsNext]_vars

(***************************************************************************)
(* Claims about several units, checked under UnitsSpec.                    *)
(***************************************************************************)
\* the pass of every unit has ended, and no step of any of them failed
AllPassesDone == \A u \in Units : procs[u].pc = "done"

\* one pool per desired name, with the cidr configured last for that name
\* and the modes of the options
DesiredPoolSet ==
    {[name |-> n, cidr |-> LastCidrFor(n), ipipMode |-> config["ipip"],
      vxlanMode |-> config["vxlan"], natOutgoing |-> config["nat-outgoing"]] :
        n \in DesiredNames}

\* the default BGPConfiguration holds the values of the options
HoldsConfiguredGlobals(r) ==
    /\ r.kind = "BGPConfiguration"
    /\ r.name = "default"
    /\ r.spec["asNumber"] = config["global-as-number"]
    /\ r.spec["nodeToNodeMeshEnabled"] = config["node-to-node-mesh"]
    /\ r.spec["serviceClusterIPs"] = ClaimedCidrList(config["bgp-service-cluster-ips"])
    /\ r.spec["serviceExternalIPs"] = ClaimedCidrList(config["bgp-service-external-ips"])
    /\ r.spec["serviceLoadBalancerIPs"] =
           ClaimedCidrList(config["bgp-service-loadbalancer-ips"])

\* C27: several units with the same configuration run the pool pass and the
\* BGP-globals pass concurrently, their get, delete and apply steps
\* interleaved in any order and no step failing: once every pass has ended
\* the pools are the desired pools and the default BGPConfiguration holds
\* the configured values.
C27_ConcurrentUnitsConverge ==
    AllPassesDone =>
        /\ ds_pools = DesiredPoolSet
        /\ \E r \in ds_bgpconfig : ds_bgpconfig = {r} /\ HoldsConfiguredGlobals(r)

\* both passes have ended where a stale pool and an earlier BGPConfiguration
\* were there at the start
C27_Witness ==
    /\ AllPassesDone
    /\ \E p \in ds_pools0 : p.name = "rogue"
    /\ Cardinality(DesiredPoolSet) = 2
    /\ ds_pools = DesiredPoolSet
    /\ \E r \in ds_bgpconfig :
           /\ "logSeverityScreen" \in DOMAIN r.spec
           /\ r.spec["serviceClusterIPs"] = <<>>

\* the unit whose step this is
Stepped(u) == procs'[u] # procs[u]

\* the name is one a unit generates: <sanitized unit name>-...
GeneratedBy(u, name) ==
    LET prefix == Hyphenated(UnitOf(u).name, "/") \o <<"-">>
    IN  Len(name) >= Len(prefix) /\ SubSeq(name, 1, Len(prefix)) = prefix

\* C28: two units <app>/<m> and <app>/<n> on one datastore, their peer and
\* node passes interleaved in any order: a unit writes only the Node of its
\* own hostname and never deletes or overwrites a BGPPeer whose name the
\* other unit generated, also when one unit id is a decimal prefix of the
\* other (1 and 10).
C28_UnitsKeepToTheirOwn ==
    [][\A u \in Units : Stepped(u) =>
          /\ \A n \in ds_node : n.name # UnitOf(u).hostname => n \in ds_node'
          /\ \A n \in ds_node' : n.name # UnitOf(u).hostname => n \in ds_node
          /\ \A v \in Units \ {u} :
                 /\ \A p \in ds_bgppeers : GeneratedBy(v, p.name) => p \in ds_bgppeers'
                 /\ \A p \in ds_bgppeers' : GeneratedBy(v, p.name) => p \in ds_bgppeers
       ]_vars

\* calico/1 has deleted its stale peer and ended its pass while the stale
\* peer of calico/10 and the peers calico/10 applied are still there
C28_Witness ==
    /\ procs[1].pc = "done"
    /\ procs[1].deleted = {StalePeer(UnitOf(1).name).name}
    /\ StalePeer(UnitOf(2).name) \in ds_bgppeers
    /\ \E p \in ds_bgppeers : GeneratedBy(2, p.name) /\ p.node = UnitOf(2).hostname
    /\ \E n \in ds_node :
           n.name = UnitOf(1).hostname /\ n.spec["bgp"]["asNumber"] = 64513
    /\ \E n \in ds_node :
           n.name = UnitOf(2).hostname /\ n.spec["bgp"]["asNumber"] = 64512

(***************************************************************************)
(* The install event of one unit, with the reconcilers step by step: the   *)
(* handler of lines 135-177, the pass of _configure_calico on the          *)
(* datastore, event.defer() and the re-run of the deferred event.  While   *)
(* env.failing holds calicoctl and the Kubernetes API may fail.            *)
(***************************************************************************)
\* the pass of _configure_calico is not running
ProcOff == [ProcStart EXCEPT !.pc = "off"]

SubnetAsNumbers8 == <<[key |-> "10.0.0.0/8", value |-> 64513]>>
SubnetAsNumbersNetmask == <<[key |-> "10.0.0.0/255.255.0.0", value |-> 64513]>>

\* configurations the charm accepts: every value parses
DeployConfigs ==
    {[UnitsConfig(<<"10.0.0.0/16", "fd00::/64">>, <<>>, <<>>, global_peers,
                  (1 :> <<PeerA>>))
          EXCEPT !["subnet-as-numbers"] = subnet_as]
       @@ [k \in {"ignore-loose-rpf", "disable-vxlan-tx-checksumming"} |->
              k = "disable-vxlan-tx-checksumming"] :
        global_peers \in {<<>>, <<PeerV6>>},
        subnet_as \in {SubnetAsNumbers8, SubnetAsNumbersNetmask}}

DeployInit ==
    /\ config \in DeployConfigs
    /\ unit = UnitOf(1)
    /\ \/ /\ ds_pools = {}
          /\ ds_bgpconfig = {}
       \/ /\ ds_pools = {ExistingPool("ipv4", "10.1.0.0/16")}
          /\ ds_bgpconfig = {Resource("BGPConfiguration", "default", EarlierSpec)}
    /\ ds_bgppeers = {StalePeer(UnitOf(u).name) : u \in Units}
    /\ ds_node = {NodeOf(UnitOf(1).hostname)}
    /\ procs = [u \in {1} |-> ProcOff]
    /\ env = [kubeconfig_hashes |-> {"abcd1234"}, etcd_ready |-> TRUE,
              rp_filter |-> 0, failing |-> TRUE]
    /\ prev_pass = NoPass
    /\ flags = {}
    /\ changed = {}
    /\ pc = "idle"
    /\ err = "none"
    /\ calls = <<>>
    /\ pools = <<>>
    /\ pool_names_to_delete = <<>>
    /\ pool_applies = <<>>
    /\ ds_pools0 = ds_pools
    /\ as_number = None
    /\ named_peers = <<>>
    /\ peer_applies = <<>>
    /\ existing_peers = {}
    /\ peers_to_delete = {}
    /\ get_result = NoResult
    /\ bgp_config = NoResource
    /\ node = NoResource
    /\ route_reflector_cluster_id = NullText
    /\ stored = StoredDefault
    /\ status = Status("maintenance", "")
    /\ event = "none"
    /\ deferred = FALSE
    /\ ran = <<>>
    /\ last_pass = "none"

\* calicoctl and the Kubernetes API stop failing
Settle ==
    /\ env.failing
    /\ env' = [env EXCEPT !.failing = FALSE]
    /\ UNCHANGED <<config, pc, err, stored, status, event, deferred, ran, last_pass,
                   charmFrame>>

\* The framework emits the install event, or emits it again after
\* event.defer() or after a hook that ended with an exception.
DeployDispatch ==
    /\ pc = "idle"
    /\ event = "none" \/ deferred
    /\ event' = "install"
    /\ pc' = "handler"
    /\ err' = "none"
    /\ deferred' = FALSE
    /\ ran' = <<>>
    /\ UNCHANGED <<config, stored, status, env, last_pass, charmFrame>>

\* line 158: apply_manifests fails only while the Kubernetes API fails
DeployManifests ==
    /\ ApplyManifests
    /\ err' # "none" => env.failing

\* line 159: _configure_calico is entered
DeployEnter ==
    /\ pc = Reconcilers[1]
    /\ procs[1].pc = "off"
    /\ procs' = [procs EXCEPT ![1] = ProcStart]
    /\ UNCHANGED <<ds_pools, ds_bgppeers, ds_bgpconfig, ds_node, unitsFrame>>

\* one calicoctl call of the pass; it fails only while calicoctl fails
DeployStep ==
    /\ pc = Reconcilers[1]
    /\ \/ UnitPoolGet(1)
       \/ UnitPoolDelete(1)
       \/ UnitPoolApply(1)
       \/ UnitNodeGet(1)
       \/ UnitNodeApply(1)
       \/ UnitGlobalsGet(1)
       \/ UnitGlobalsApply(1)
       \/ UnitPeerApply(1)
       \/ UnitPeerGet(1)
       \/ UnitPeerDelete(1)
    /\ procs'[1].pc = "failed" => env.failing

\* lines 113 and 160-161: the last reconciler returned (no ethtool call, vxlan
\* is Never); calico_configured and deployed are set, then _set_status
DeployReturn ==
    /\ pc = Reconcilers[1]
    /\ procs[1].pc = "done"
    /\ procs' = [procs EXCEPT ![1] = ProcOff]
    /\ stored' = [stored EXCEPT !.calico_configured = TRUE, !.deployed = TRUE]
    /\ status' = SetStatus(status, stored', env, config)
    /\ last_pass' = "ok"
    /\ ran' = ran \o Reconcilers
    /\ pc' = "idle"
    /\ UNCHANGED <<config, unit, ds_pools, ds_bgppeers, ds_bgpconfig, ds_node, err,
                   event, deferred, env, calls, poolLocals, ds_pools0, as_number,
                   peerLocals, get_result, bgp_config, node,
                   route_reflector_cluster_id, prev_pass, reactiveVars>>

\* lines 167-171: CalledProcessError and TimeoutExpired are caught and the
\* event is deferred; any other exception ends the hook, which is run again
DeployCaught ==
    /\ pc = Reconcilers[1]
    /\ procs[1].pc = "failed"
    /\ procs' = [procs EXCEPT ![1] = ProcOff]
    /\ last_pass' = "failed"
    /\ IF procs[1].err \in CalicoctlErrors
       THEN Caught(procs[1].err, FlagAfterError(stored, procs[1].err))
       ELSE /\ err' = procs[1].err
            /\ status' = Status("error", "hook failed")
            /\ deferred' = TRUE
            /\ pc' = "idle"
            /\ UNCHANGED stored
    /\ UNCHANGED <<config, unit, ds_pools, ds_bgppeers, ds_bgpconfig, ds_node,
                   event, ran, env, calls, poolLocals, ds_pools0, as_number,
                   peerLocals, get_result, bgp_config, node,
                   route_reflector_cluster_id, prev_pass, reactiveVars>>

\* the steps of the running handler
DeployHandler ==
    \/ InstallOrUpgrade
    \/ ConfigureCni
    \/ DeployManifests
    \/ DeployEnter
    \/ DeployStep
    \/ DeployReturn
    \/ DeployCaught

DeployNext == Settle \/ DeployDispatch \/ DeployHandler

\* A handler that started runs to its end, an event that was deferred is
\* emitted again, and calicoctl and the Kubernetes API stop failing.
DeploySpec ==
    /\ DeployInit
    /\ [][DeployNext]_vars
    /\ WF_vars(DeployHandler)
    /\ WF_vars(DeployDispatch)
    /\ WF_vars(Settle)

(***************************************************************************)
(* Claim about the deployment, checked under DeploySpec.                   *)
(***************************************************************************)
\* the AS number of the unit: its unit-as-numbers entry, else the value of a
\* longest-prefix subnet-as-numbers entry that holds the bind address
DesiredAsNumber ==
    IF GetUnitId(unit.name) \in DOMAIN config["unit-as-numbers"]
    THEN config["unit-as-numbers"][GetUnitId(unit.name)]
    ELSE IF LocalEntries # {}
    THEN config["subnet-as-numbers"][CHOOSE i \in LongestEntries : TRUE].value
    ELSE None

DesiredClusterId ==
    IF GetUnitId(unit.name) \in DOMAIN config["route-reflector-cluster-ids"]
    THEN config["route-reflector-cluster-ids"][GetUnitId(unit.name)]
    ELSE NullText

\* one BGPPeer per desired name, as C8 describes them
DesiredPeerSet ==
    {[name |-> n, node |-> unit.hostname, peerIP |-> LastPeerNamed(n).address,
      asNumber |-> LastPeerNamed(n).as_number] : n \in ClaimedNames}

\* the datastore holds the desired pools, node fields, BGP globals and peers
DatastoreAsDesired ==
    /\ ds_pools = DesiredPoolSet
    /\ \E n \in ds_node :
           /\ n.name = unit.hostname
           /\ n.spec["bgp"]["asNumber"] = DesiredAsNumber
           /\ n.spec["bgp"]["routeReflectorClusterID"] = DesiredClusterId
    /\ \E r \in ds_bgpconfig : HoldsConfiguredGlobals(r)
    /\ {p \in ds_bgppeers : HasUnitPrefix(p.name)} = DesiredPeerSet

Deployed == stored.deployed /\ stored.calico_configured

\* C30: under fairness (every deferred event is run again, calicoctl and the
\* Kubernetes API stop failing) and with a valid configuration, a unit whose
\* kubeconfig and etcd data are there reaches deployed = true and
\* calico_configured = true with the datastore holding the desired pools,
\* node fields, BGP globals and peers.
C30_EventuallyDeployed == <>(Deployed /\ DatastoreAsDesired)

\* the keys of subnet-as-numbers are written as address/prefixlen
CanonicalSubnetKeys ==
    \A i \in 1..Len(config["subnet-as-numbers"]) :
        NetworkStr(ip_network(config["subnet-as-numbers"][i].key)) =
            config["subnet-as-numbers"][i].key

\* with such keys the unit does reach that state
DeployedWhenCanonical == CanonicalSubnetKeys => C30_EventuallyDeployed

\* the flags are always reached, whatever the keys
EventuallyFlags == <>Deployed

(***************************************************************************)
(* Time-outs of the first get of the BGP globals, checked under            *)
(* GlobalsSpec.                                                            *)
(***************************************************************************)
\* the get of the default BGPConfiguration timed out
GetTimedOut == get_result.type = "TimeoutExpired"

\* C31: when the initial get of _configure_bgp_globals times out, with or
\* without error output, the pass fails with the time-out itself: no other
\* kind of error is raised and no apply is issued (so that the handlers,
\* which catch command errors and time-outs, set Waiting and defer).
C31_TimeoutPropagated ==
    GetTimedOut =>
        /\ pc = "failed"
        /\ err = "TimeoutExpired"
        /\ err \in CalicoctlErrors
        /\ GlobalsApplyIdx = {}

\* the part of C31 that the code keeps: a time-out that read error output
C31_TimeoutWithOutput ==
    (GetTimedOut /\ ~get_result.stderr_none) =>
        /\ pc = "failed"
        /\ err = "TimeoutExpired"
        /\ GlobalsApplyIdx = {}

\* the time-out that read nothing ends the pass with a TypeError
C31_SilentTimeout ==
    /\ GetTimedOut
    /\ get_result.stderr_none
    /\ pc = "failed"
    /\ err = "TypeError"
    /\ err \notin CalicoctlErrors

(***************************************************************************)
(* The reactive generation (reactive/calico.py): one flag per reconciler.  *)
(* A hook dispatches the handlers whose flags match, one after the other,  *)
(* until none is left; a handler is one step here, with the calicoctl      *)
(* calls it issued and how each ended.                                     *)
(***************************************************************************)
ReactiveReconcilers == {"pool", "globals", "node", "peers"}

\* the flag set_state sets at the end of configure_*
ConfiguredFlag(r) ==
    CASE r = "pool" -> "calico.pool.configured"
      [] r = "globals" -> "calico.bgp.globals.configured"
      [] r = "node" -> "calico.node.configured"
      [] r = "peers" -> "calico.bgp.peers.configured"

\* the @when decorator of configure_*
WhenFlags(r) ==
    IF r = "pool"
    THEN {"calico.binaries.installed", "etcd.available",
          "calico.etcd-credentials.installed",
          "leadership.set.calico-v3-data-ready"}
    ELSE {"calico.binaries.installed", "etcd.available",
          "leadership.set.calico-v3-data-ready"}

\* the options the body of configure_* reads
KeysRead(r) ==
    CASE r = "pool" -> {"manage-pools", "cidr", "ipip", "vxlan", "nat-outgoing"}
      [] r = "globals" ->
             {"global-as-number", "node-to-node-mesh", "bgp-service-cluster-ips",
              "bgp-service-external-ips", "bgp-service-loadbalancer-ips"}
      [] r = "node" ->
             {"unit-as-numbers", "subnet-as-numbers", "route-reflector-cluster-ids"}
      [] r = "peers" -> {"global-bgp-peers", "subnet-bgp-peers", "unit-bgp-peers"}

ReconfigureKeys_noVxlan(r) ==
    CASE r = "pool" -> {"ipip", "nat-outgoing", "cidr", "manage-pools"}
      [] r = "globals" ->
             {"global-as-number", "node-to-node-mesh", "bgp-service-cluster-ips",
              "bgp-service-external-ips", "bgp-service-loadbalancer-ips"}
      [] r = "node" ->
             {"subnet-as-numbers", "unit-as-numbers", "route-reflector-cluster-ids"}
      [] r = "peers" -> {"global-bgp-peers", "subnet-bgp-peers", "unit-bgp-peers"}

\* the @when_any decorator of reconfigure_*: config.changed.<key>
ReconfigureKeys(r) ==
    CASE r = "pool" -> {"ipip", "nat-outgoing", "cidr", "manage-pools", "vxlan"}
      [] r = "globals" ->
             {"global-as-number", "node-to-node-mesh", "bgp-service-cluster-ips",
              "bgp-service-external-ips", "bgp-service-loadbalancer-ips"}
      [] r = "node" ->
             {"subnet-as-numbers", "unit-as-numbers", "route-reflector-cluster-ids"}
      [] r = "peers" -> {"global-bgp-peers", "subnet-bgp-peers", "unit-bgp-peers"}

ReactiveKeys == UNION {KeysRead(r) : r \in ReactiveReconcilers}

\* a charm configuration and, for every option, another value
ReactiveDefault ==
    [k \in ReactiveKeys |->
        CASE k \in {"manage-pools", "nat-outgoing", "node-to-node-mesh"} -> TRUE
          [] k \in {"ipip", "vxlan"} -> "Never"
          [] k = "cidr" -> "192.168.0.0/16"
          [] k = "global-as-number" -> 64512
          [] k \in {"bgp-service-cluster-ips", "bgp-service-external-ips",
                    "bgp-service-loadbalancer-ips"} -> ""
          [] k = "global-bgp-peers" -> "[]"
          [] OTHER -> "{}"]

OtherValue(k) ==
    CASE k \in {"manage-pools", "nat-outgoing", "node-to-node-mesh"} -> FALSE
      [] k \in {"ipip", "vxlan"} -> "Always"
      [] k = "cidr" -> "10.0.0.0/8"
      [] k = "global-as-number" -> 64513
      [] k \in {"bgp-service-cluster-ips", "bgp-service-external-ips",
                "bgp-service-loadbalancer-ips"} -> "10.152.183.0/24"
      [] k = "global-bgp-peers" -> "[{address: 10.0.0.1, as-number: 65000}]"
      [] k = "subnet-bgp-peers" ->
             "{10.0.0.0/16: [{address: 10.0.0.1, as-number: 65000}]}"
      [] k = "unit-bgp-peers" -> "{0: [{address: 10.0.0.1, as-number: 65000}]}"
      [] k = "route-reflector-cluster-ids" -> "{0: 224.0.0.1}"
      [] k = "unit-as-numbers" -> "{0: 64512}"
      [] OTHER -> "{10.0.0.0/16: 64513}"

WithOther(K) == [k \in ReactiveKeys |-> IF k \in K THEN OtherValue(k) ELSE ReactiveDefault[k]]

\* the default, one option set, or ipip and vxlan both set
ReactiveConfigs ==
    {ReactiveDefault, WithOther({"ipip", "vxlan"})}
        \cup {WithOther({k}) : k \in ReactiveKeys}

\* layer options: config.changed.<key> for every option whose value differs
\* from the one the last hook saw
ChangedKeys(old, new) == {k \in ReactiveKeys : old[k] # new[k]}

\* upgrade_charm, lines 64-72: the flags of this model among those removed
UpgradeRemoves ==
    {"calico.binaries.installed", "calico.pool.configured",
     "calico.bgp.globals.configured",
     "calico.node.configured", "calico.bgp.peers.configured"}

\* flags set outside calico.py: by the etcd relation and by the leader
RelationFlags ==
    {"etcd.available", "calico.etcd-credentials.installed",
     "leadership.set.calico-v3-data-ready"}

\* ready(), line 670
ReadyPreconditions ==
    {"calico.service.installed", "calico.pool.configured", "calico.cni.configured",
     "calico.bgp.globals.configured", "calico.node.configured",
     "calico.bgp.peers.configured"}

\* a calicoctl call of a handler and how it ended: "ok", or CalledProcessError
\* with or without 'resource does not exist' in its output
RCall(verb, kind, result) == [verb |-> verb, kind |-> kind, result |-> result]

Repeat(n, c) == [i \in 1..n |-> c]

\* the calls configure_* issues when none fails: pool lines 390-421, node
\* lines 574-578, peers lines 627-652
CallPlans(r) ==
    CASE r = "pool" ->
             {<<RCall("get", "pool", "ok")>>
                  \o Repeat(d, RCall("delete", "pool", "ok"))
                  \o Repeat(a, RCall("apply", "pool", "ok")) :
                  d \in 0..1, a \in 1..1}
      [] r = "node" -> {<<RCall("get", "node", "ok"), RCall("apply", "node", "ok")>>}
      [] r = "peers" ->
             {Repeat(a, RCall("apply", "bgppeer", "ok"))
                  \o <<RCall("get", "bgppeers", "ok")>>
                  \o Repeat(d, RCall("delete", "bgppeer", "ok")) :
                  a \in 0..1, d \in 0..1}

\* check_output without a timeout: a failing call raises CalledProcessError;
\* a get or delete of one named resource may report that it does not exist
\* (pools are deleted with --skip-not-exists)
FailuresOf(c) ==
    IF \/ c.verb = "get" /\ c.kind \in {"node", "bgpconfig"}
       \/ c.verb = "delete" /\ c.kind = "bgppeer"
    THEN {"CalledProcessError", "NotFound"}
    ELSE {"CalledProcessError"}

Failed(c) == c.result # "ok"

\* the run of a plan up to its k-th call, which fails
FailAt(plan, k, f) ==
    [i \in 1..k |-> IF i = k THEN [plan[i] EXCEPT !.result = f] ELSE plan[i]]

\* how a run of configure_* may go: the calls, and whether it ended with
\* set_state ("set") or in the except clause ("caught")
Runs(r, cfg) ==
    CASE r = "pool" /\ ~cfg["manage-pools"] -> {[calls |-> <<>>, ended |-> "set"]}
      [] r = "globals" ->
             \* lines 513-546: the get may report not found, then a skeleton
             \* is applied
             {[calls |-> <<RCall("get", "bgpconfig", g)>>, ended |-> "caught"] :
                  g \in {"CalledProcessError"}}
             \cup {[calls |-> <<RCall("get", "bgpconfig", g),
                                RCall("apply", "bgpconfig", a)>>,
                    ended |-> IF a = "ok" THEN "set" ELSE "caught"] :
                      g \in {"ok", "NotFound"}, a \in {"ok", "CalledProcessError"}}
      [] OTHER ->
             {[calls |-> plan, ended |-> "set"] : plan \in CallPlans(r)}
             \cup UNION {UNION {{[calls |-> FailAt(plan, k, f), ended |-> "caught"] :
                                    f \in FailuresOf(plan[k])} :
                                k \in 1..Len(plan)} :
                         plan \in CallPlans(r)}

\* status.maintenance at the start of configure_*
StartStatus(r, st, cfg) ==
    CASE r = "pool" /\ ~cfg["manage-pools"] -> st
      [] r = "pool" -> Status("maintenance", "Configuring Calico IP pool")
      [] r = "globals" -> Status("maintenance", "Configuring BGP globals")
      [] r = "node" -> Status("maintenance", "Configuring Calico node")
      [] r = "peers" -> Status("maintenance", "Configuring BGP peers")

PoolConflict_never(cfg) == FALSE

\* line 424
PoolConflict(cfg) == cfg["ipip"] # "Never" /\ cfg["vxlan"] # "Never"

\* the status the except clause of configure_* sets
CaughtStatus(r, cfg) ==
    CASE r = "pool" /\ PoolConflict(cfg) ->
             Status("blocked", "ipip and vxlan configs are in conflict")
      [] r = "pool" -> Status("waiting", "Waiting to retry calico pool configuration")
      [] r = "globals" -> Status("waiting", "Waiting to retry BGP global configuration")
      [] r = "node" -> Status("waiting", "Waiting to retry Calico node configuration")
      [] r = "peers" -> Status("waiting", "Waiting to retry BGP peer configuration")

Handler(what, r) == [handler |-> what, of |-> r]

ConfigureEnabled_flagSet(r) ==
    /\ WhenFlags(r) \subseteq flags
    /\ Handler("configure", r) \notin ran

\* A handler runs again in the same hook only after a flag it names changed:
\* ran holds the handlers invoked since.
ConfigureEnabled(r) ==
    /\ WhenFlags(r) \subseteq flags
    /\ ConfiguredFlag(r) \notin flags
    /\ Handler("configure", r) \notin ran

ReconfigureEnabled(r) ==
    /\ changed \cap ReconfigureKeys(r) # {}
    /\ Handler("reconfigure", r) \notin ran

\* the configure_* handlers that name flag f
Woken(f) ==
    {Handler("configure", r) :
        r \in {q \in ReactiveReconcilers : f \in WhenFlags(q) \cup {ConfiguredFlag(q)}}}

\* install_calico_binaries, lines 153-155: its decorators
InstallEnabled ==
    /\ "leadership.set.calico-v3-data-ready" \in flags
    /\ "calico.binaries.installed" \notin flags

ReactiveInit ==
    /\ prev_pass = NoPass
    /\ flags = {}
    /\ changed = {}
    /\ procs = <<>>
    /\ ds_bgpconfig = {}
    /\ ds_node = {}
    /\ get_result = NoResult
    /\ bgp_config = NoResource
    /\ node = NoResource
    /\ route_reflector_cluster_id = NullText
    /\ stored = StoredDefault
    /\ status = Status("maintenance", "")
    /\ event = "none"
    /\ deferred = FALSE
    /\ ran = {}
    /\ env = [kubeconfig |-> TRUE, etcd_ready |-> TRUE, rp_filter |-> 0]
    /\ last_pass = "none"
    /\ config = ReactiveDefault
    /\ unit = [name |-> <<"c", "a", "l", "i", "c", "o", "/", "0">>,
               bind_address |-> "10.0.0.5", hostname |-> "juju-0"]
    /\ ds_pools = {}
    /\ ds_bgppeers = {}
    /\ pc = "idle"
    /\ err = "none"
    /\ calls = <<>>
    /\ pools = <<>>
    /\ pool_names_to_delete = <<>>
    /\ pool_applies = <<>>
    /\ ds_pools0 = {}
    /\ as_number = None
    /\ named_peers = <<>>
    /\ peer_applies = <<>>
    /\ existing_peers = {}
    /\ peers_to_delete = {}

reactiveFrame ==
    <<unit, ds_pools, ds_bgppeers, poolLocals, ds_pools0, as_number, peerLocals,
      globalsVars, nodeVars, get_result, stored, deferred, env, last_pass, prev_pass,
      procs>>

\* what the operator may have set between two hooks: nothing, one option,
\* or ipip and vxlan together
OperatorSets(old) ==
    {new \in ReactiveConfigs :
        \/ Cardinality(ChangedKeys(old, new)) <= 1
        \/ ChangedKeys(old, new) = {"ipip", "vxlan"}}

\* the flags a relation or the leader may have set between two hooks
RelationSets ==
    {{}, RelationFlags \ {"calico.etcd-credentials.installed"}, RelationFlags}

\* A hook starts.
HookStart ==
    /\ pc = "idle"
    /\ config' \in OperatorSets(config)
    /\ changed' = ChangedKeys(config, config')
    /\ \E F \in RelationSets : flags' = flags \cup F
    /\ event' = IF changed' # {} THEN "config-changed" ELSE "update-status"
    /\ ran' = {}
    /\ calls' = <<>>
    /\ err' = "none"
    /\ pc' = "hook"
    /\ UNCHANGED <<status, reactiveFrame>>

\* upgrade_charm, the upgrade-charm hook
UpgradeCharm ==
    /\ pc = "idle"
    /\ flags' = flags \ UpgradeRemoves
    /\ changed' = {}
    /\ event' = "upgrade-charm"
    /\ ran' = {}
    /\ calls' = <<>>
    /\ err' = "none"
    /\ pc' = "hook"
    /\ UNCHANGED <<config, status, reactiveFrame>>

\* reconfigure_calico_pool, reconfigure_bgp_globals, reconfigure_node,
\* reconfigure_bgp_peers
Reconfigure(r) ==
    /\ pc = "hook"
    /\ ReconfigureEnabled(r)
    /\ flags' = flags \ {ConfiguredFlag(r)}
    /\ ran' = (ran \ (IF flags' # flags THEN Woken(ConfiguredFlag(r)) ELSE {}))
                  \cup {Handler("reconfigure", r)}
    /\ calls' = <<>>
    /\ err' = "none"
    /\ UNCHANGED <<config, changed, event, pc, status, reactiveFrame>>

\* configure_calico_pool, configure_bgp_globals, configure_node,
\* configure_bgp_peers
Configure(r) ==
    /\ pc = "hook"
    /\ ConfigureEnabled(r)
    /\ \E run \in Runs(r, config) :
        /\ calls' = run.calls
        /\ flags' = IF run.ended = "set" THEN flags \cup {ConfiguredFlag(r)} ELSE flags
        /\ status' = IF run.ended = "set"
                     THEN StartStatus(r, status, config)
                     ELSE CaughtStatus(r, config)
        /\ err' = IF run.ended = "set" THEN "none" ELSE "CalledProcessError"
    /\ ran' = ran \cup {Handler("configure", r)}
    /\ UNCHANGED <<config, changed, event, pc, reactiveFrame>>

\* install_calico_binaries
Install ==
    /\ pc = "hook"
    /\ InstallEnabled
    /\ flags' = flags \cup {"calico.binaries.installed"}
    /\ ran' = ran \ Woken("calico.binaries.installed")
    /\ calls' = <<>>
    /\ err' = "none"
    /\ UNCHANGED <<config, changed, event, pc, status, reactiveFrame>>

\* nothing is left to invoke
Dispatched ==
    /\ \A r \in ReactiveReconcilers : ~ConfigureEnabled(r)
    /\ \A r \in ReactiveReconcilers : ~ReconfigureEnabled(r)
    /\ ~InstallEnabled

\* The hook ends: ready() runs at exit, lines 668-687, and the changed
\* options are saved.  The flags of the service and of the CNI configuration
\* may be set or not, the unit is not the leader, calico-node may be running
\* or not.
HookEnd ==
    /\ pc = "hook"
    /\ Dispatched
    /\ \/ /\ ReadyPreconditions \cap {ConfiguredFlag(r) : r \in ReactiveReconcilers}
                 \subseteq flags
          /\ status' \in {Status("active", "Calico is active"),
                          Status("waiting", "Waiting for service: calico-node")}
       \/ UNCHANGED status
    /\ changed' = {}
    /\ ran' = {}
    /\ calls' = <<>>
    /\ pc' = "idle"
    /\ UNCHANGED <<config, flags, event, err, reactiveFrame>>

ReactiveNext ==
    \/ HookStart
    \/ UpgradeCharm
    \/ \E r \in ReactiveReconcilers : Reconfigure(r)
    \/ \E r \in ReactiveReconcilers : Configure(r)
    \/ Install
    \/ HookEnd

ReactiveSpec == ReactiveInit /\ [][ReactiveNext]_vars

(***************************************************************************)
(* Claims about the flags of the reactive generation, checked under        *)
(* ReactiveSpec.                                                           *)
(***************************************************************************)
\* this step is a run of configure_* of reconciler r
ConfigureStep(r) ==
    /\ Handler("configure", r) \notin ran
    /\ Handler("configure", r) \in ran'

\* C32: when an option that a reconciler reads has changed at a hook, the
\* reconfigure handler of that reconciler has run by the time the dispatch
\* is over, and the configured flag is then unset unless the reconciler has
\* run again after the flag was cleared.
C32_ChangeClearsFlag ==
    (pc = "hook" /\ Dispatched) =>
        \A r \in ReactiveReconcilers :
            changed \cap KeysRead(r) # {} =>
                /\ Handler("reconfigure", r) \in ran
                /\ \/ ConfiguredFlag(r) \notin flags
                   \/ Handler("configure", r) \in ran

\* vxlan was changed, the pool flag was cleared and the pool reconciler has
\* run again and set it
C32_Witness ==
    /\ pc = "hook"
    /\ Dispatched
    /\ changed = {"vxlan"}
    /\ Handler("reconfigure", "pool") \in ran
    /\ Handler("configure", "pool") \in ran
    /\ ReactiveReconcilers \ {"pool"} =
           {r \in ReactiveReconcilers : Handler("configure", r) \notin ran}
    /\ {ConfiguredFlag(r) : r \in ReactiveReconcilers} \subseteq flags

\* a call that failed and that the handler did not take as 'not there yet':
\* every failed call but the get of the default BGPConfiguration that
\* reported 'resource does not exist'
Unhandled(c) ==
    /\ Failed(c)
    /\ ~(c.verb = "get" /\ c.kind = "bgpconfig" /\ c.result = "NotFound")

\* C33 as stated: a configured flag goes from unset to set only at the end
\* of a run of its reconciler in which every calicoctl call succeeded; a run
\* with a failing call leaves the flag unset and sets a Waiting status; a
\* reconciler runs only while its flag is unset.
C33_FlagOnlyAfterCleanRun ==
    [][\A r \in ReactiveReconcilers :
           /\ (ConfiguredFlag(r) \notin flags /\ ConfiguredFlag(r) \in flags') =>
                  /\ ConfigureStep(r)
                  /\ \A i \in 1..Len(calls') : ~Failed(calls'[i])
           /\ (ConfigureStep(r) /\ \E i \in 1..Len(calls') : Failed(calls'[i])) =>
                  /\ ConfiguredFlag(r) \notin flags'
                  /\ status'.name = "waiting"
           /\ ConfigureStep(r) => ConfiguredFlag(r) \notin flags]_vars

\* C33, amended: the get of the default BGPConfiguration may fail with
\* 'resource does not exist' in a run that sets the flag, and the pool
\* reconciler sets Blocked instead of Waiting when ipip and vxlan are both
\* not 'Never'.
C33_FlagOnlyAfterHandledRun ==
    [][\A r \in ReactiveReconcilers :
           /\ (ConfiguredFlag(r) \notin flags /\ ConfiguredFlag(r) \in flags') =>
                  /\ ConfigureStep(r)
                  /\ \A i \in 1..Len(calls') : ~Unhandled(calls'[i])
           /\ (ConfigureStep(r) /\ \E i \in 1..Len(calls') : Unhandled(calls'[i])) =>
                  /\ ConfiguredFlag(r) \notin flags'
                  /\ status'.name =
                         IF r = "pool" /\ config["ipip"] # "Never"
                                       /\ config["vxlan"] # "Never"
                         THEN "blocked" ELSE "waiting"
           /\ ConfigureStep(r) => ConfiguredFlag(r) \notin flags]_vars

\* the BGP globals flag was set by a run whose get reported that the default
\* BGPConfiguration does not exist
C33_Witness ==
    /\ pc = "hook"
    /\ Handler("configure", "globals") \in ran
    /\ "calico.bgp.globals.configured" \in flags
    /\ Len(calls) = 2
    /\ calls[1] = RCall("get", "bgpconfig", "NotFound")
    /\ calls[2] = RCall("apply", "bgpconfig", "ok")

\* the last handler that ran is configure_calico_pool and a call of it failed
PoolRunFailed ==
    /\ pc = "hook"
    /\ calls # <<>>
    /\ calls[1].kind = "pool"
    /\ \E i \in 1..Len(calls) : Failed(calls[i])

\* the reactive generation does what C34 says
C34_ReactiveConflictSurfaced ==
    PoolRunFailed =>
        /\ "calico.pool.configured" \notin flags
        /\ status = IF config["ipip"] # "Never" /\ config["vxlan"] # "Never"
                    THEN Status("blocked", "ipip and vxlan configs are in conflict")
                    ELSE Status("waiting", "Waiting to retry calico pool configuration")

C34_ReactiveConflict ==
    /\ PoolRunFailed
    /\ config["ipip"] = "Always"
    /\ config["vxlan"] = "Always"
    /\ status.name = "blocked"

C34_ReactiveRetry ==
    /\ PoolRunFailed
    /\ config["ipip"] = "Always"
    /\ config["vxlan"] = "Never"
    /\ status.name = "waiting"

(***************************************************************************)
(* The pool failure in the handlers of charm.py, checked under CharmSpec.  *)
(***************************************************************************)
\* the handler ended because _configure_calico_pool raised a command error
PoolCommandError ==
    /\ pc = "idle"
    /\ last_pass = "failed"
    /\ err = "CalledProcessError"
    /\ ReconcilersRan = <<"pool">>

\* C34: when the pool reconciliation fails with a command error the status
\* is Blocked 'ipip and vxlan configs are in conflict' if ipip and vxlan are
\* both not 'Never' and a Waiting status otherwise, and the unit is not
\* marked as configured by that pass.
C34_ConflictSurfaced ==
    PoolCommandError =>
        /\ status = IF config["ipip"] # "Never" /\ config["vxlan"] # "Never"
                    THEN Status("blocked", "ipip and vxlan configs are in conflict")
                    ELSE Status("waiting", status.message)
        /\ event \in InstallEvents => ~stored.calico_configured

\* what charm.py does keep: the failure gives a Waiting status
C34_WaitingWhatever ==
    PoolCommandError => status.name = "waiting" /\ deferred

\* the pool failed while ipip and vxlan were both set, and the status is the
\* one of any other failure
C34_ConflictAsRetry ==
    /\ PoolCommandError
    /\ event = "config-changed"
    /\ config["ipip"] = "Always"
    /\ config["vxlan"] = "Always"
    /\ status = Status("waiting", "Configuring Calico.")

(***************************************************************************)
(* upgrade-charm, checked under CharmSpec.                                 *)
(***************************************************************************)
\* the steps of an upgrade that ends with deployed = true
UpgradeSequence == <<"remove_reactive", "install_binaries", "cni", "manifests">> \o FixedOrder

\* C35: the upgrade-charm handler clears binaries_installed and deployed
\* before the install sequence: the binaries are installed again, and
\* deployed is true after the handler only when the CNI configuration, the
\* manifests and all the reconcilers have run again in it.
C35_UpgradeRunsInstallAgain ==
    /\ []((event = "upgrade" /\ pc # "handler") =>
              /\ Len(ran) >= 2
              /\ SubSeq(ran, 1, 2) = <<"remove_reactive", "install_binaries">>
              /\ stored.deployed => (ran = UpgradeSequence /\ err = "none"))
    /\ [][(event = "upgrade" /\ pc = "handler" /\ pc' # "handler") =>
              /\ ~stored'.deployed
              /\ "install_binaries" \in Range(ran')]_vars

\* an upgrade has ended with deployed = true
C35_Witness ==
    /\ event = "upgrade"
    /\ pc = "idle"
    /\ stored.deployed
    /\ stored.binaries_installed
    /\ ran = UpgradeSequence

(***************************************************************************)
(* The rp_filter check of _set_status, checked under CharmSpec.            *)
(***************************************************************************)
RpfBlocked ==
    Status("blocked", "ignore-loose-rpf config is in conflict with rp_filter value")

\* the steps that end with a call of _set_status: update-status, the end of
\* config-changed and the end of install / upgrade
SetStatusStep ==
    /\ pc' = "idle"
    /\ err' = "none"
    /\ \/ pc = "handler" /\ event = "update-status"
       \/ pc = "manifests" /\ event = "config-changed"
       \/ pc = Reconcilers[Len(Reconcilers)] /\ event \in InstallEvents

LooseRpfRefused == env.rp_filter = 2 /\ ~config["ignore-loose-rpf"]

ManifestApplies == Cardinality({i \in 1..Len(ran) : ran[i] = "manifests"})

\* C37: the handler of the etcd TLS-available event applies the manifests
\* exactly once when deployed is true, and defers the event if that raises
\* ManifestClientError; it applies no manifest when deployed is false; it
\* runs no reconciler and changes no stored flag.
C37_EtcdChangedOnlyManifests ==
    /\ []((event = "etcd-tls-available" /\ pc = "idle") =>
              /\ ManifestApplies = IF stored.deployed THEN 1 ELSE 0
              /\ deferred <=> err = "ManifestClientError"
              /\ err # "none" => stored.deployed
              /\ ReconcilersRan = <<>>
              /\ "cni" \notin Range(ran))
    /\ [][event' = "etcd-tls-available" => stored' = stored]_vars

\* the manifests could not be applied on a deployed unit: the event is deferred
C37_Witness ==
    /\ event = "etcd-tls-available"
    /\ pc = "idle"
    /\ stored.deployed
    /\ ManifestApplies = 1
    /\ err = "ManifestClientError"
    /\ deferred

(***************************************************************************)
(* deployed over all events and actions, checked under CharmSpec.          *)
(***************************************************************************)
\* C39: whatever the events and actions, deployed is true only if the CNI
\* configuration and a full reconciliation pass have ended without error
\* since the last upgrade-charm: deployed becomes true only at the end of a
\* handler that has run them all, and never before any pass has run.
C39_DeployedImpliesFullPass ==
    /\ [](stored.deployed => last_pass # "none")
    /\ [][(~stored.deployed /\ stored'.deployed) =>
              /\ DeployStepsRan' = DeploySteps
              /\ err' = "none"
              /\ last_pass' = "ok"]_vars

\* what does hold: outside the sync-resources action deployed becomes true
\* only after the whole sequence
C39_ExceptSyncResources ==
    [][(~stored.deployed /\ stored'.deployed /\ event' # "sync-resources") =>
           /\ DeployStepsRan' = DeploySteps
           /\ err' = "none"
           /\ last_pass' = "ok"]_vars

\* sync-resources has set deployed on a unit that never configured the CNI
\* nor ran a reconciler
C39_DeployedWithoutPass ==
    /\ stored.deployed
    /\ ~stored.calico_configured
    /\ last_pass = "none"
    /\ event = "sync-resources"
    /\ ran = <<"apply_missing_resources">>

(***************************************************************************)
(* Recovery from a configuration that does not parse: the install event,   *)
(* the config-changed event after the operator set the option again, and   *)
(* update-status, with fairness.  A reconciler is one step, as in the      *)
(* handlers above.                                                         *)
(***************************************************************************)
\* values of the unit-as-numbers option: yaml.safe_load raises on the last
YamlTexts == {"{}", "{0: 64512}", "{0: 64512"}

\* yaml.safe_load(text) returns
ParsesAsYaml(text) == text \in {"{}", "{0: 64512}"}

RecoverConfigs ==
    {CharmConfig(TRUE, FALSE, "Never", manage, "Never") @@ ("unit-as-numbers" :> text) :
        manage \in BOOLEAN, text \in YamlTexts}

RecoverInit ==
    /\ prev_pass = NoPass
    /\ flags = {}
    /\ changed = {}
    /\ procs = <<>>
    /\ ds_bgpconfig = {}
    /\ ds_node = {}
    /\ get_result = NoResult
    /\ bgp_config = NoResource
    /\ node = NoResource
    /\ route_reflector_cluster_id = NullText
    /\ stored = StoredDefault
    /\ status = Status("maintenance", "")
    /\ event = "none"
    /\ deferred = FALSE
    /\ ran = <<>>
    /\ last_pass = "none"
    /\ config \in RecoverConfigs
    /\ env \in [kubeconfig_hashes : {{"abcd1234"}}, etcd_ready : {TRUE},
                rp_filter : {0, 2}, failing : BOOLEAN, pending : {FALSE}]
    /\ unit = [name |-> <<"c", "a", "l", "i", "c", "o", "/", "0">>,
               bind_address |-> "10.0.0.5", hostname |-> "juju-0"]
    /\ ds_pools = {}
    /\ ds_bgppeers = {}
    /\ pc = "idle"
    /\ err = "none"
    /\ calls = <<>>
    /\ pools = <<>>
    /\ pool_names_to_delete = <<>>
    /\ pool_applies = <<>>
    /\ ds_pools0 = {}
    /\ as_number = None
    /\ named_peers = <<>>
    /\ peer_applies = <<>>
    /\ existing_peers = {}
    /\ peers_to_delete = {}

\* the handler starts
Emit(ev) ==
    /\ event' = ev
    /\ pc' = "handler"
    /\ err' = "none"
    /\ deferred' = FALSE
    /\ ran' = <<>>

\* the install event of a new unit
RecoverInstall ==
    /\ pc = "idle"
    /\ event = "none"
    /\ Emit("install")
    /\ UNCHANGED <<config, stored, status, env, last_pass, charmFrame>>

\* an event that called event.defer() is emitted again
RecoverDeferred ==
    /\ pc = "idle"
    /\ deferred
    /\ Emit(event)
    /\ UNCHANGED <<config, stored, status, env, last_pass, charmFrame>>

\* the operator sets the option that did not parse, seeing the Blocked status
OperatorCorrects ==
    /\ pc = "idle"
    /\ status = InvalidConfig
    /\ \E text \in YamlTexts :
        /\ ParsesAsYaml(text)
        /\ text # config["unit-as-numbers"]
        /\ config' = [config EXCEPT !["unit-as-numbers"] = text]
    /\ env' = [env EXCEPT !.pending = TRUE]
    /\ UNCHANGED <<pc, err, stored, status, event, deferred, ran, last_pass,
                   charmFrame>>

\* config-changed follows a change of the configuration
RecoverConfigChanged ==
    /\ pc = "idle"
    /\ ~deferred
    /\ env.pending
    /\ env' = [env EXCEPT !.pending = FALSE]
    /\ Emit("config-changed")
    /\ UNCHANGED <<config, stored, status, last_pass, charmFrame>>

\* update-status comes at intervals
RecoverUpdateStatus ==
    /\ pc = "idle"
    /\ ~deferred
    /\ event # "none"
    /\ Emit("update-status")
    /\ UNCHANGED <<config, stored, status, env, last_pass, charmFrame>>

\* apply_manifests fails only while the Kubernetes API fails
RecoverManifests ==
    /\ ApplyManifests
    /\ err' # "none" => env.failing

\* _get_unit_as_number, line 296: the node reconciler raises yaml.YAMLError
\* when unit-as-numbers does not parse, and only then; calicoctl fails only
\* while it is failing
RecoverReconcile ==
    /\ Reconcile
    /\ (pc = "node" /\ ~ParsesAsYaml(config["unit-as-numbers"])) => err' = "YAMLError"
    /\ err' = "YAMLError" => (pc = "node" /\ ~ParsesAsYaml(config["unit-as-numbers"]))
    /\ err' \in CalicoctlErrors => env.failing

RecoverHandler ==
    \/ InstallOrUpgrade
    \/ ConfigureCni
    \/ RecoverManifests
    \/ ConfigChanged
    \/ RecoverReconcile
    \/ UpdateStatus

RecoverNext ==
    \/ RecoverInstall \/ RecoverDeferred \/ OperatorCorrects \/ RecoverConfigChanged
    \/ RecoverUpdateStatus \/ Settle \/ RecoverHandler

\* A handler that started runs to its end, an event that was deferred is
\* emitted again, config-changed comes after a change, the operator corrects
\* a configuration reported as invalid, and calicoctl and the Kubernetes API
\* stop failing.
RecoverSpec ==
    /\ RecoverInit
    /\ [][RecoverNext]_vars
    /\ WF_vars(RecoverHandler)
    /\ WF_vars(RecoverInstall)
    /\ WF_vars(RecoverDeferred)
    /\ WF_vars(RecoverConfigChanged)
    /\ WF_vars(OperatorCorrects)
    /\ WF_vars(Settle)

\* install ended with the parse error, and the operator has corrected the
\* configuration: config-changed is about to come
CorrectedAfterParseError ==
    /\ pc = "idle"
    /\ event = "install"
    /\ status = InvalidConfig
    /\ ~stored.deployed
    /\ ~deferred
    /\ env.pending
    /\ ParsesAsYaml(config["unit-as-numbers"])

\* C38: when install has ended with a configuration parse error (Blocked
\* 'Invalid Config provided...', deployed false, event not deferred) and the
\* operator has corrected the configuration, then, under fairness, the
\* config-changed event leads to deployed = true and calico_configured =
\* true.
C38_CorrectionLeadsToDeployed == CorrectedAfterParseError ~> Deployed

\* a configuration that parses from the start does lead there
C38_ValidLeadsToDeployed ==
    ParsesAsYaml(config["unit-as-numbers"]) => <>Deployed

\* config-changed has come after the correction and has ended: nothing ran,
\* the unit is not deployed and no event is left
C38_NothingReconciled ==
    /\ pc = "idle"
    /\ event = "config-changed"
    /\ ParsesAsYaml(config["unit-as-numbers"])
    /\ ~env.pending
    /\ ~deferred
    /\ ran = <<>>
    /\ ~stored.deployed
    /\ status = Status("maintenance", "Reconfiguring Calico.")

====
